---------------------------- MODULE Spec2Model ----------------------------
(***************************************************************************)
(* Model of the XAI explanation engine and of the detection request path   *)
(* of the two services (deepfake audio detection, lung cancer detection).  *)
(*                                                                         *)
(* Arrays are records [dtype, shape, data]: shape is the numpy shape, data *)
(* the elements in row-major order.  A "uint8" array holds integers; a     *)
(* "float" array holds fixed-point numbers, the integer q standing for the *)
(* value q / FDen.                                                         *)
(***************************************************************************)
EXTENDS Integers, Sequences, FiniteSets, TLC

VARIABLES
    \* ---- one XaiShap instance (audio service) ----
    xs_explainer,   \* self._explainer: the cached SHAP explainer
    xs_shape,       \* self._explainer_input_shape
    xs_builds,      \* number of SHAP explainers built by the instance
    xs_pc,          \* position of the running explain() call
    xs_in,          \* arguments of the running / last explain() call
    xs_out,         \* outcome of the last explain() call
    xs_log,         \* events of the running / last explain() call, in order
    xs_calls,       \* number of explain() calls started on the instance
    xs_ci,          \* class index the SHAP layer explained in the last call
    \* ---- one detection request on its way through a service ----
    rq_svc,         \* the service that received the request
    rq_sel,         \* the xai_method form field of the request
    rq_pc,          \* position of the request in the endpoint / in detect()
    rq_stages,      \* stages the request has reached, in order
    rq_ops,         \* operations detect() has started, in order, with their success
    rq_locals,      \* local variables of detect() and of the handler
    rq_err,         \* the exception on its way up, if any
    rq_result,      \* the DetectorResult returned by detect()
    rq_resp,        \* the HTTP response sent
    rq_files,       \* temporary files on disk
    rq_del,         \* outcome of the deletion of each temporary file, number of
                    \* os.remove calls on the upload, whether file.close() ran
    rq_log,         \* warnings logged by the cleanups
    rq_count,       \* number of requests received
    \* ---- one explainer instance and the explain() call running on it ----
    ex_kind,        \* class of the explainer
    ex_pc,          \* position of the running explain() call
    ex_in,          \* arguments of the running / last explain() call
    ex_out,         \* outcome of the last explain() call
    ex_pending,     \* outcome of _compute_gradcam's try block, until its finally has run
    ex_class,       \* class the last call explained
    ex_preds,       \* predictions the explainer obtained in the last call
    ex_hooks,       \* hooks registered on the model
    ex_hooked,      \* hooks registered during the running / last call
    ex_passes,      \* model passes run during the running / last call
    ex_calls,       \* number of explain() calls started on the instance
    \* ---- a helper called on its own ----
    hp_fn,          \* the helper called last
    hp_args,        \* its arguments
    hp_out,         \* its outcome
    \* ---- the arrays a caller hands to explain(), as they lie in memory ----
    mm_fn,          \* the explainer whose explain() was called last
    mm_before,      \* contents of base_image and x before the call
    mm_after,       \* contents of base_image and x after the call
    mm_tag,         \* "return" or "raise": how the call ended
    \* ---- one OverlayConfig object ----
    oc_pc,          \* "none" until the object is constructed, then "made"
    oc_cfg,         \* its three fields
    oc_err,         \* exception type of the last assignment to a field, or ""
    rq_raised,      \* the exception as the failing operation of detect() raised it
    th,             \* per thread inside _get_or_create_explainer: its position and locals
    th_calls,       \* per thread: the calls it has made
    hk,             \* per thread inside _compute_gradcam: its position and locals
    hk_fwd,         \* the forward hooks registered on the target layer
    hk_bwd,         \* the backward hooks registered on the target layer
    hk_calls,       \* per thread: the Grad-CAM computations it has started
    ex_cond,        \* what the running / last explain() call met: "no_conv",
                    \* "no_capture", "grads_none", or "none"
    lp_pc,          \* LungCancerDetector.detect: where the call is
    lp_threshold,   \* LungDetectorModel._threshold
    lp_scores,      \* scores of the last forward pass, per pathology
    lp_prediction,  \* LungPrediction of the running / last call
    lp_label,       \* label handed to explain() in the running / last call
    lp_calls        \* detect() calls so far

shapVars == <<xs_explainer, xs_shape, xs_builds, xs_pc, xs_in, xs_out, xs_log, xs_calls, xs_ci>>

reqVars == <<rq_svc, rq_sel, rq_pc, rq_stages, rq_ops, rq_locals, rq_err, rq_result,
             rq_resp, rq_files, rq_del, rq_log, rq_count>>

exVars == <<ex_kind, ex_pc, ex_in, ex_out, ex_pending, ex_class, ex_preds, ex_hooks,
            ex_hooked, ex_passes, ex_calls>>

hpVars == <<hp_fn, hp_args, hp_out>>

mmVars == <<mm_fn, mm_before, mm_after, mm_tag>>

ocVars == <<oc_pc, oc_cfg, oc_err>>

rsVars == <<rq_raised>>

thVars == <<th, th_calls>>

hkVars == <<hk, hk_fwd, hk_bwd, hk_calls>>

ecVars == <<ex_cond>>

lpVars == <<lp_pc, lp_threshold, lp_scores, lp_prediction, lp_label, lp_calls>>

vars == <<shapVars, reqVars, exVars, hpVars, mmVars, ocVars, rsVars, thVars, hkVars, ecVars,
          lpVars>>

-----------------------------------------------------------------------------
(* Bounds of the model *)

\* resolution of the fixed-point representation of floats
FDen == 1000
\* number of explain() calls made on one explainer instance
MaxCalls == 2
\* number of requests a service receives
MaxRequests == 2
\* number of classes of the VGG16 proxy model of the audio Grad-CAM explainer
ProxyNumClasses == 3

-----------------------------------------------------------------------------
(* Generic helpers *)

Min2(a, b) == IF a <= b THEN a ELSE b
Max2(a, b) == IF a >= b THEN a ELSE b
Clip(v, lo, hi) == Max2(lo, Min2(v, hi))
Abs(v) == IF v < 0 THEN -v ELSE v

SeqMax(s) == CHOOSE m \in {s[i] : i \in 1..Len(s)} : \A i \in 1..Len(s) : s[i] <= m
SeqMin(s) == CHOOSE m \in {s[i] : i \in 1..Len(s)} : \A i \in 1..Len(s) : s[i] >= m

\* number of elements of an array of the given shape
RECURSIVE ShapeSize(_)
ShapeSize(shape) ==
    IF Len(shape) = 0 THEN 1 ELSE Head(shape) * ShapeSize(Tail(shape))

Arr(dtype, shape, data) == [dtype |-> dtype, shape |-> shape, data |-> data]
NoArr == Arr("none", <<>>, <<>>)

\* outcome of a call: a returned value or a raised exception
Exc(type, msg) == [type |-> type, msg |-> msg]
NoExc == Exc("", "")
Ret(v) == [tag |-> "return", val |-> v, exc |-> NoExc]
Raise(type, msg) == [tag |-> "raise", val |-> NoArr, exc |-> Exc(type, msg)]
Raised(o) == o.tag = "raise"

-----------------------------------------------------------------------------
(* XaiHelpers of the audio service: image shape / dtype helpers *)

\* np.stack([img]*3, axis=-1) and np.concatenate([img]*3, axis=-1): every
\* element is repeated three times along the new last axis
Replicate3(data) == [i \in 1..(3 * Len(data)) |-> data[((i - 1) \div 3) + 1]]

\* img[:, :, 1:] of an H x W x 4 array: the first channel is dropped, not
\* the fourth
DropFirstChannel(data) ==
    [i \in 1..((Len(data) \div 4) * 3) |-> data[((i - 1) \div 3) * 4 + ((i - 1) % 3) + 2]]

\* img[:, :, :3] of an H x W x 4 array
DropAlpha(data) ==
    [i \in 1..((Len(data) \div 4) * 3) |-> data[((i - 1) \div 3) * 4 + ((i - 1) % 3) + 1]]

ensure_rgb(image) ==
    LET check(s3) ==
            IF Len(s3.shape) # 3 \/ s3.shape[3] # 3
            THEN Raise("ValueError", "Expected image with shape (H,W,3)")
            ELSE Ret(s3)
        rgba(s2) ==
            check(IF Len(s2.shape) = 3 /\ s2.shape[3] = 4
                  THEN Arr(s2.dtype, <<s2.shape[1], s2.shape[2], 3>>, DropAlpha(s2.data))
                  ELSE s2)
        single(s1) ==
            rgba(IF Len(s1.shape) = 3 /\ s1.shape[3] = 1
                 THEN Arr(s1.dtype, <<s1.shape[1], s1.shape[2], 3>>, Replicate3(s1.data))
                 ELSE s1)
    IN  single(IF Len(image.shape) = 2
               THEN Arr(image.dtype, image.shape \o <<3>>, Replicate3(image.data))
               ELSE image)

\* the elements of an array as fixed-point floats (astype(np.float32))
AsFix(a) == IF a.dtype = "uint8" THEN [i \in 1..Len(a.data) |-> a.data[i] * FDen]
            ELSE a.data

as_float01(x) ==
    LET scale(arr, mx) ==
            Arr("float", x.shape,
                [i \in 1..Len(arr) |->
                    Clip(IF mx > FDen THEN arr[i] \div 255 ELSE arr[i], 0, FDen)])
        withMax(arr) == scale(arr, IF Len(arr) > 0 THEN SeqMax(arr) ELSE 0)
    IN  withMax(AsFix(x))

\* np.clip(x, 0, 255).astype(np.uint8) of a fixed-point value: truncation
FixToU8(q) == Clip(q, 0, 255 * FDen) \div FDen

ensure_rgb_uint8(image) ==
    LET scale(shape, x, mx) ==
            Ret(Arr("uint8", shape,
                    [i \in 1..Len(x) |-> FixToU8(IF mx <= FDen THEN x[i] * 255 ELSE x[i])]))
        conv(shape, x) ==
            IF Len(x) = 0
            THEN Raise("ValueError", "zero-size array to reduction operation maximum")
            ELSE scale(shape, x, SeqMax(x))
        done(r) ==
            IF Raised(r) THEN r
            ELSE IF r.val.dtype = "uint8" THEN r
            ELSE conv(r.val.shape, AsFix(r.val))
    IN  done(ensure_rgb(image))

-----------------------------------------------------------------------------
(* XaiHelpers of the audio service: numeric helpers *)

\* element (i, j), 0-based, of a 2-D array
At2(a, i, j) == a.data[i * a.shape[2] + j + 1]

normalize_01(arr) ==
    LET scale(x, mn, mx) ==
            Arr("float", arr.shape,
                [i \in 1..Len(x) |->
                    \* (x - mn) / (mx - mn + eps): 0 / eps = 0 for a constant array
                    IF mx = mn THEN 0 ELSE ((x[i] - mn) * FDen) \div (mx - mn)])
        go(x) == IF Len(x) = 0 THEN Arr("float", arr.shape, x)
                 ELSE scale(x, SeqMin(x), SeqMax(x))
    IN  go(AsFix(arr))

\* a percentile that takes the next element above the position instead of
\* interpolating
PercentileHigher(a, p) ==
    LET at(s, k) == s[Min2((k + 99) \div 100, Len(s) - 1) + 1]
    IN  at(SortSeq(a, LAMBDA u, v : u < v), p * (Len(a) - 1))

\* np.percentile(a, p) with numpy's default linear interpolation, p in percent
Percentile(a, p) ==
    LET interp(s, lo, hi, g) == s[lo + 1] + (g * (s[hi + 1] - s[lo + 1])) \div 100
        at(s, k) == interp(s, k \div 100, Min2((k \div 100) + 1, Len(s) - 1), k % 100)
    IN  at(SortSeq(a, LAMBDA u, v : u < v), p * (Len(a) - 1))

\* the division by the threshold without the clipping to [-thr, thr]
normalize_signed_unclipped(heat, clip_percentile) ==
    LET norm(h, thr) ==
            IF thr <= 0
            THEN Arr("float", heat.shape, [i \in 1..Len(h) |-> 0])
            ELSE Arr("float", heat.shape, [i \in 1..Len(h) |-> (h[i] * FDen) \div thr])
        go(h) ==
            IF Len(h) = 0 THEN Arr("float", heat.shape, h)
            ELSE norm(h, Percentile([i \in 1..Len(h) |-> Abs(h[i])], clip_percentile))
    IN  go(AsFix(heat))

\* thr = float(np.percentile(np.abs(h).reshape(-1), clip_percentile)), h the
\* elements of the heat map as floats
ClipThreshold(h, clip_percentile) ==
    Percentile([i \in 1..Len(h) |-> Abs(h[i])], clip_percentile)

\* a normalisation that takes a zero threshold for full intensity
clip_and_normalize_signed_saturating(heat, clip_percentile) ==
    LET norm(h, thr) ==
            IF thr <= 0
            THEN Arr("float", heat.shape, [i \in 1..Len(h) |-> FDen])
            ELSE Arr("float", heat.shape,
                     [i \in 1..Len(h) |-> (Clip(h[i], -thr, thr) * FDen) \div thr])
        go(h) ==
            IF Len(h) = 0 THEN Arr("float", heat.shape, h)
            ELSE norm(h, ClipThreshold(h, clip_percentile))
    IN  go(AsFix(heat))

clip_and_normalize_signed(heat, clip_percentile) ==
    LET norm(h, thr) ==
            \* thr <= 1e-12: on the fixed-point grid, thr = 0
            IF thr <= 0
            THEN Arr("float", heat.shape, [i \in 1..Len(h) |-> 0])
            ELSE Arr("float", heat.shape,
                     [i \in 1..Len(h) |-> (Clip(h[i], -thr, thr) * FDen) \div thr])
        go(h) ==
            IF Len(h) = 0 THEN Arr("float", heat.shape, h)
            ELSE norm(h, ClipThreshold(h, clip_percentile))
    IN  go(AsFix(heat))

\* linear interpolation a + (b - a) * ln / ld
Lerp(a, b, ln, ld) == a + ((b - a) * ln) \div ld

\* tf.image.resize(..., method="bilinear"): source coordinate of output index
\* d (0-based) is (d + 0.5) * nin / nout - 0.5 = SrcNum / SrcDen
SrcNum(d, nin, nout) == (2 * d + 1) * nin - nout
SrcDen(nout) == 2 * nout
SrcLo(d, nin, nout) == Max2(SrcNum(d, nin, nout) \div SrcDen(nout), 0)
SrcHi(d, nin, nout) ==
    Min2(Max2((SrcNum(d, nin, nout) + SrcDen(nout) - 1) \div SrcDen(nout), 0), nin - 1)
SrcFrac(d, nin, nout) ==
    IF SrcNum(d, nin, nout) < 0 THEN 0 ELSE SrcNum(d, nin, nout) % SrcDen(nout)

resize_2d(map2d, size_hw) ==
    LET px(m, i0, i1, fi, j0, j1, fj) ==
            Lerp(Lerp(At2(m, i0, j0), At2(m, i0, j1), fj, SrcDen(size_hw[2])),
                 Lerp(At2(m, i1, j0), At2(m, i1, j1), fj, SrcDen(size_hw[2])),
                 fi, SrcDen(size_hw[1]))
        at(m, i, j) ==
            px(m, SrcLo(i, m.shape[1], size_hw[1]), SrcHi(i, m.shape[1], size_hw[1]),
                  SrcFrac(i, m.shape[1], size_hw[1]),
                  SrcLo(j, m.shape[2], size_hw[2]), SrcHi(j, m.shape[2], size_hw[2]),
                  SrcFrac(j, m.shape[2], size_hw[2]))
        go(m, h, w) ==
            IF Len(m.shape) # 2 THEN Raise("ValueError", "resize_2d expects 2D array")
            ELSE IF m.shape = <<h, w>> THEN Ret(m)
            ELSE IF h <= 0 \/ w <= 0 \/ m.shape[1] = 0 \/ m.shape[2] = 0
                 THEN Raise("InvalidArgumentError", "resize: dimensions must be positive")
            ELSE Ret(Arr("float", <<h, w>>,
                         [n \in 1..(h * w) |-> at(m, (n - 1) \div w, (n - 1) % w)]))
    IN  go(Arr("float", map2d.shape, AsFix(map2d)), size_hw[1], size_hw[2])

-----------------------------------------------------------------------------
(* OverlayConfig and the overlay helpers *)

OverlayCfg(amax, amin, pct) ==
    [alpha_max |-> amax, alpha_min |-> amin, clip_percentile |-> pct]

\* OverlayConfig(): alpha_max = 0.70, alpha_min = 0.05, clip_percentile = 99.0
DefaultOverlayConfig == OverlayCfg((70 * FDen) \div 100, (5 * FDen) \div 100, 99)

\* a colour channel given in hundredths
Hundredths(c) == (c * FDen) \div 100
PosRgb == <<Hundredths(100), Hundredths(12), Hundredths(12)>>
NegRgb == <<Hundredths(12), Hundredths(12), Hundredths(100)>>
UnsignedRgb == <<Hundredths(100), Hundredths(55), Hundredths(0)>>

signed_heat_to_rgba(signed_heat, alpha_min, alpha_max) ==
    LET px(v, k) ==
            IF k = 4
            THEN Clip(alpha_min + ((alpha_max - alpha_min) * Abs(v)) \div FDen, 0, FDen)
            ELSE IF v >= 0 THEN PosRgb[k] ELSE NegRgb[k]
    IN  Arr("float", <<signed_heat.shape[1], signed_heat.shape[2], 4>>,
            [n \in 1..(4 * Len(signed_heat.data)) |->
                px(Clip(signed_heat.data[((n - 1) \div 4) + 1], -FDen, FDen),
                   ((n - 1) % 4) + 1)])

\* numpy broadcasting of two dimensions: -1 when they are incompatible
Bcast(a, b) == IF a = b THEN a ELSE IF a = 1 THEN b ELSE IF b = 1 THEN a ELSE -1

\* np.clip(out, 0.0, 1.0) alone, without the scaling to 0..255
Float01Clipped(q) == Clip(q, 0, FDen)

\* (np.clip(out, 0.0, 1.0) * 255.0).astype(np.uint8)
Float01ToU8(q) == (Clip(q, 0, FDen) * 255) \div FDen

\* element (i, j, k), 0-based, of an array of shape s with c channels, read
\* with numpy broadcasting over the first two axes, clipped to [0, 1]
BcastAt01(data, s, c, i, j, k) ==
    Clip(data[((IF s[1] = 1 THEN 0 ELSE i) * s[2] + (IF s[2] = 1 THEN 0 ELSE j)) * c + k + 1],
         0, FDen)

alpha_blend(base_rgb01, overlay_rgba01) ==
    LET mix(b, o, a) == (b * (FDen - a) + o * a) \div FDen
        px(base, over, i, j, k) ==
            mix(BcastAt01(base, base_rgb01.shape, 3, i, j, k),
                BcastAt01(over, overlay_rgba01.shape, 4, i, j, k),
                BcastAt01(over, overlay_rgba01.shape, 4, i, j, 3))
        blend(base, over, hh, ww) ==
            IF hh < 0 \/ ww < 0
            THEN Raise("ValueError", "operands could not be broadcast together")
            ELSE Ret(Arr("uint8", <<hh, ww, 3>>,
                         [n \in 1..(hh * ww * 3) |->
                             Float01ToU8(px(base, over, (n - 1) \div (ww * 3),
                                            ((n - 1) \div 3) % ww, (n - 1) % 3))]))
        go(bs, os) ==
            IF Len(bs) # 3 \/ bs[3] # 3
            THEN Raise("ValueError", "alpha_blend expects base RGB [H,W,3]")
            ELSE IF Len(os) # 3 \/ os[3] # 4
            THEN Raise("ValueError", "alpha_blend expects overlay RGBA [H,W,4]")
            ELSE blend(AsFix(base_rgb01), AsFix(overlay_rgba01),
                       Bcast(bs[1], os[1]), Bcast(bs[2], os[2]))
    IN  go(base_rgb01.shape, overlay_rgba01.shape)

\* the tail shared by both render helpers: blend, then ensure_rgb of the result
BlendOnto(base_rgb01, rgba) ==
    LET done(out) == IF Raised(out) THEN out ELSE ensure_rgb(out.val)
    IN  done(alpha_blend(base_rgb01, rgba))

\* the heat map taken as it is, whatever the base image's size
FitToUnresized(map2d, base_rgb01) ==
    IF Len(map2d.shape) # 2
    THEN resize_2d(map2d, <<base_rgb01.shape[1], base_rgb01.shape[2]>>)
    ELSE Ret(Arr("float", map2d.shape, AsFix(map2d)))

\* the heat map brought to the base image's height and width
FitTo(map2d, base_rgb01) ==
    IF map2d.shape # <<base_rgb01.shape[1], base_rgb01.shape[2]>>
    THEN resize_2d(map2d, <<base_rgb01.shape[1], base_rgb01.shape[2]>>)
    ELSE Ret(Arr("float", map2d.shape, AsFix(map2d)))

render_signed_overlay(base_image, signed_heat, cfg) ==
    LET draw(base_rgb01, rh) ==
            IF Raised(rh) THEN rh
            ELSE BlendOnto(base_rgb01,
                           signed_heat_to_rgba(
                               clip_and_normalize_signed(rh.val, cfg.clip_percentile),
                               cfg.alpha_min, cfg.alpha_max))
        onBase(base_rgb01) == draw(base_rgb01, FitTo(signed_heat, base_rgb01))
        go(rb) == IF Raised(rb) THEN rb ELSE onBase(as_float01(rb.val))
    IN  go(ensure_rgb(base_image))

\* RGBA layer of render_unsigned_overlay: one colour, alpha from the importance
UnsignedRgba(imp, cfg) ==
    Arr("float", <<imp.shape[1], imp.shape[2], 4>>,
        [n \in 1..(4 * Len(imp.data)) |->
            IF (n - 1) % 4 = 3
            THEN Clip(cfg.alpha_min
                      + ((cfg.alpha_max - cfg.alpha_min)
                         * Clip(imp.data[((n - 1) \div 4) + 1], 0, FDen)) \div FDen,
                      0, FDen)
            ELSE UnsignedRgb[((n - 1) % 4) + 1]])

render_unsigned_overlay(base_image, importance01, cfg) ==
    LET draw(base_rgb01, ri) ==
            IF Raised(ri) THEN ri
            ELSE BlendOnto(base_rgb01, UnsignedRgba(ri.val, cfg))
        onBase(base_rgb01) == draw(base_rgb01, FitTo(importance01, base_rgb01))
        go(rb) == IF Raised(rb) THEN rb ELSE onBase(as_float01(rb.val))
    IN  go(ensure_rgb(base_image))

-----------------------------------------------------------------------------
(* Inputs of the explainers *)

\* AudioDetectorModel.CLASS_NAMES = ["real", "fake"]
NumClasses == 2

\* XaiGradCAM._BASE_WEIGHT = 0.6 and _HEATMAP_WEIGHT = 0.4 (audio), in percent
BaseWeightPct == 60
HeatmapWeightPct == 40

\* alpha = 0.45 of the lung Grad-CAM overlay, in percent
LungAlphaPct == 45

\* class_index arguments: in range, and out of range on both sides
ClassIndices == {-1, 0, 1, NumClasses}

\* base images: RGB uint8, grayscale floats, RGBA, single channel, a float
\* image on the 0..255 scale, a value just below 1.0, and arrays that are no
\* image (1-D, two channels) or hold no element
BaseImages ==
    { Arr("uint8", <<1, 2, 3>>, <<0, 128, 255, 10, 20, 30>>),
      Arr("float", <<1, 1>>, <<FDen \div 2>>),
      Arr("float", <<1, 2>>, <<FDen - 1, 0>>),
      Arr("float", <<1, 1, 4>>, <<FDen, 0, FDen \div 4, FDen \div 2>>),
      Arr("float", <<2, 1, 1>>, <<0, FDen>>),
      Arr("float", <<1, 1, 3>>, <<200 * FDen, 300 * FDen, 0 - FDen>>),
      Arr("float", <<2>>, <<0, FDen>>),
      Arr("float", <<1, 1, 2>>, <<0, FDen>>),
      Arr("float", <<0, 0, 3>>, <<>>) }

\* values a library hands back for a heat map, repeated over the pixels
HeatPatterns ==
    { <<0, 0>>, <<5 * FDen, 0 - 5 * FDen>>, <<0 - FDen \div 4, FDen \div 2>> }
ImpPatterns == { <<0, 0>>, <<FDen, FDen \div 4>> }

\* an h x w float map filled from a pattern
MapOf(pattern, h, w) ==
    Arr("float", <<h, w>>, [i \in 1..(h * w) |-> pattern[((i - 1) % Len(pattern)) + 1]])

\* model predictions of the audio classifier, (1, NumClasses)
Predictions == { <<(9 * FDen) \div 10, FDen \div 10>>, <<FDen \div 5, (4 * FDen) \div 5>> }

\* np.argmax: index (0-based) of the first maximum
ArgMax(p) == (CHOOSE i \in 1..Len(p) :
                 /\ \A j \in 1..Len(p) : p[j] <= p[i]
                 /\ \A j \in 1..(i - 1) : p[j] < p[i]) - 1

-----------------------------------------------------------------------------
(* XaiShap (audio service) *)

NoExplainer == [builtFor |-> <<>>, id |-> 0]
NoShape == <<>>
NoInput == [class_index |-> 0, base_image |-> NoArr]
NoOutcome == [tag |-> "none", val |-> NoArr, exc |-> NoExc]
\* no class explained yet
NoClass == -2

\* XaiShap.__init__: nothing is cached
ShapInit ==
    /\ xs_explainer = NoExplainer
    /\ xs_shape = NoShape
    /\ xs_builds = 0
    /\ xs_pc = "idle"
    /\ xs_in = NoInput
    /\ xs_out = NoOutcome
    /\ xs_log = <<>>
    /\ xs_calls = 0
    /\ xs_ci = NoClass

\* a test that looks at the cached explainer only, not at its recorded shape
CacheHitAnyShape(explainer, shape, input_shape) == explainer # NoExplainer

\* _get_or_create_explainer's test: an explainer is cached for this shape
CacheHit(explainer, shape, input_shape) ==
    explainer # NoExplainer /\ shape = input_shape

_select_valid_class_index(preds, requested_index) ==
    IF 0 <= requested_index /\ requested_index < Len(preds)
    THEN requested_index
    ELSE ArgMax(preds)

\* what the shap library and the wrapped model do during _shap_signed_map
ShapBehaviours ==
    [kind : {"build_raises", "call_raises", "predict_raises", "vals_bad"},
     pattern : {<<0, 0>>}, preds : {<<(9 * FDen) \div 10, FDen \div 10>>}]
    \cup [kind : {"vals5", "vals4"}, pattern : HeatPatterns, preds : Predictions]

\* result of _shap_signed_map: its outcome, the instance's cache fields after
\* the call, and the class index it explained
ShapMap(o, explainer, shape, builds, ci) ==
    [out |-> o, explainer |-> explainer, shape |-> shape, builds |-> builds, ci |-> ci]

_get_or_create_explainer(input_shape, explainer, shape, builds) ==
    IF CacheHit(explainer, shape, input_shape)
    THEN [explainer |-> explainer, shape |-> shape, builds |-> builds]
    ELSE [explainer |-> [builtFor |-> input_shape, id |-> builds + 1],
          shape |-> input_shape, builds |-> builds + 1]

_shap_signed_map(base_image, class_index, ext, explainer, shape, builds) ==
    LET vals(c, signed) ==
            CASE ext.kind \in {"build_raises", "call_raises"} ->
                    ShapMap(Raise("Exception", "shap explainer call failed"),
                            c.explainer, c.shape, c.builds, class_index)
              [] ext.kind = "vals_bad" ->
                    ShapMap(Raise("ValueError", "Unexpected SHAP values shape"),
                            c.explainer, c.shape, c.builds, class_index)
              [] ext.kind = "vals4" ->
                    ShapMap(Ret(signed), c.explainer, c.shape, c.builds, class_index)
              [] ext.kind = "predict_raises" ->
                    ShapMap(Raise("Exception", "model.predict failed"),
                            c.explainer, c.shape, c.builds, class_index)
              [] OTHER ->
                    ShapMap(Ret(signed), c.explainer, c.shape, c.builds,
                            _select_valid_class_index(ext.preds, class_index))
        run(x01) ==
            IF ~CacheHit(explainer, shape, x01.shape) /\ ext.kind = "build_raises"
            THEN ShapMap(Raise("Exception", "shap masker construction failed"),
                         explainer, shape, builds, class_index)
            ELSE vals(_get_or_create_explainer(x01.shape, explainer, shape, builds),
                      MapOf(ext.pattern, x01.shape[1], x01.shape[2]))
        go(r) == IF Raised(r) THEN ShapMap(r, explainer, shape, builds, class_index)
                 ELSE run(as_float01(r.val))
    IN  go(ensure_rgb(base_image))

\* what the wrapped model and the gradient tape do in _gradient_fallback_unsigned
GradBehaviours ==
    [kind : {"model_raises", "rank_bad", "grads_none"}, pattern : {<<0, 0>>}]
    \cup [kind : {"ok"}, pattern : ImpPatterns]

\* a gradient layer that takes an out-of-range class_index as the SHAP layer
\* does, explaining a class of the predictions instead of raising
_gradient_fallback_selecting(base_image, class_index, ext) ==
    LET go(r) ==
            IF Raised(r) THEN r
            ELSE IF ext.kind = "model_raises" THEN Raise("Exception", "model call failed")
            ELSE IF ext.kind = "rank_bad" THEN Raise("ValueError", "Unexpected output rank")
            ELSE IF ext.kind = "grads_none"
                 THEN Raise("RuntimeError", "GradientTape returned None gradients.")
            ELSE Ret(MapOf(ext.pattern, r.val.shape[1], r.val.shape[2]))
    IN  go(ensure_rgb(base_image))

_gradient_fallback_unsigned(base_image, class_index, ext) ==
    LET go(r) ==
            IF Raised(r) THEN r
            ELSE IF ext.kind = "model_raises" THEN Raise("Exception", "model call failed")
            ELSE IF ext.kind = "rank_bad" THEN Raise("ValueError", "Unexpected output rank")
            ELSE IF class_index < 0 \/ class_index >= NumClasses
                 THEN Raise("ValueError", "class_index out of range")
            ELSE IF ext.kind = "grads_none"
                 THEN Raise("RuntimeError", "GradientTape returned None gradients.")
            ELSE Ret(MapOf(ext.pattern, r.val.shape[1], r.val.shape[2]))
    IN  go(ensure_rgb(base_image))

\* explain(), entry: the START log line
ShapExplainStart ==
    /\ ex_kind = "audio_shap"
    /\ xs_pc = "idle"
    /\ xs_calls < MaxCalls
    /\ \E ci \in ClassIndices, base \in BaseImages :
          xs_in' = [class_index |-> ci, base_image |-> base]
    /\ xs_calls' = xs_calls + 1
    /\ xs_pc' = "shap"
    /\ xs_out' = NoOutcome
    /\ xs_log' = <<[layer |-> "explain", event |-> "START"]>>
    /\ xs_ci' = NoClass
    /\ UNCHANGED <<xs_explainer, xs_shape, xs_builds>>
    /\ UNCHANGED <<reqVars, exVars, hpVars, mmVars, ocVars, rsVars, thVars, hkVars, ecVars, lpVars>>

\* a fallback that goes from a failed SHAP layer straight to the base image
ShapLayerDoneSkipping(layer, o) ==
    IF Raised(o)
    THEN /\ xs_log' = xs_log \o <<[layer |-> layer, event |-> "try"]>>
                             \o <<[layer |-> layer, event |-> "ERROR"]>>
         /\ xs_pc' = "base_image"
         /\ xs_out' = xs_out
    ELSE /\ xs_log' = xs_log \o <<[layer |-> layer, event |-> "try"]>>
                             \o <<[layer |-> layer, event |-> "END"]>>
         /\ xs_pc' = "idle"
         /\ xs_out' = o

\* what explain() does with the outcome of its first layer (inner try/except)
ShapLayerDone(layer, o) ==
    IF Raised(o)
    THEN /\ xs_log' = xs_log \o <<[layer |-> layer, event |-> "try"]>>
                             \o <<[layer |-> layer, event |-> "ERROR"]>>
         /\ xs_pc' = IF layer = "shap" THEN "gradient" ELSE "base_image"
         /\ xs_out' = xs_out
    ELSE /\ xs_log' = xs_log \o <<[layer |-> layer, event |-> "try"]>>
                             \o <<[layer |-> layer, event |-> "END"]>>
         /\ xs_pc' = "idle"
         /\ xs_out' = o

\* first layer of explain(): the overlay of the signed SHAP map
ShapLayerOverlay(base_image, m) ==
    IF Raised(m.out) THEN m.out
    ELSE render_signed_overlay(base_image, m.out.val, DefaultOverlayConfig)

\* second layer of explain(): the overlay of the gradient importance
GradientLayerOverlay(base_image, g) ==
    IF Raised(g) THEN g
    ELSE render_unsigned_overlay(base_image, g.val, DefaultOverlayConfig)

\* the instance's cache fields after _shap_signed_map
ShapCacheUpdate(m) ==
    /\ xs_explainer' = m.explainer
    /\ xs_shape' = m.shape
    /\ xs_builds' = m.builds
    /\ xs_ci' = m.ci

\* explain(), first layer: _shap_signed_map and render_signed_overlay
ShapExplainShap ==
    /\ xs_pc = "shap"
    /\ \E ext \in ShapBehaviours :
        \E m \in {_shap_signed_map(xs_in.base_image, xs_in.class_index, ext,
                                   xs_explainer, xs_shape, xs_builds)} :
            /\ ShapCacheUpdate(m)
            /\ ShapLayerDone("shap", ShapLayerOverlay(xs_in.base_image, m))
    /\ UNCHANGED <<xs_in, xs_calls>>
    /\ UNCHANGED <<reqVars, exVars, hpVars, mmVars, ocVars, rsVars, thVars, hkVars, ecVars, lpVars>>

\* explain(), second layer: _gradient_fallback_unsigned and render_unsigned_overlay
ShapExplainGradient ==
    /\ xs_pc = "gradient"
    /\ \E ext \in GradBehaviours :
          ShapLayerDone("gradient",
              GradientLayerOverlay(xs_in.base_image,
                  _gradient_fallback_unsigned(xs_in.base_image, xs_in.class_index, ext)))
    /\ UNCHANGED <<xs_in, xs_calls, xs_explainer, xs_shape, xs_builds, xs_ci>>
    /\ UNCHANGED <<reqVars, exVars, hpVars, mmVars, ocVars, rsVars, thVars, hkVars, ecVars, lpVars>>

\* a last layer that hands the base image back without the uint8 conversion
ShapBaseImageUnconverted(base_image) == ensure_rgb(base_image)

\* explain(), outer except: return XaiHelpers.ensure_rgb_uint8(base_image)
ShapBaseImage(base_image) == ensure_rgb_uint8(base_image)

ShapExplainBaseImage ==
    /\ xs_pc = "base_image"
    /\ xs_out' = ShapBaseImage(xs_in.base_image)
    /\ xs_log' = xs_log \o <<[layer |-> "base_image", event |-> "try"]>>
    /\ xs_pc' = "idle"
    /\ UNCHANGED <<xs_in, xs_calls, xs_explainer, xs_shape, xs_builds, xs_ci>>
    /\ UNCHANGED <<reqVars, exVars, hpVars, mmVars, ocVars, rsVars, thVars, hkVars, ecVars, lpVars>>

ShapNext ==
    \/ ShapExplainStart
    \/ ShapExplainShap
    \/ ShapExplainGradient
    \/ ShapExplainBaseImage

-----------------------------------------------------------------------------
(* The detection request path: endpoint, handler and detect() of a service *)

Services == {"audio", "lung"}

\* members of the service's XaiMethod enum
XaiMethod(svc) == IF svc = "audio" THEN {"gradcam", "lime", "shap"} ELSE {"gradcam", "lime"}

\* values a client can put in the xai_method form field
Selectors == {"gradcam", "lime", "shap", "bogus"}

\* a detect() that explains before it predicts
DetectFlowExplainFirst(svc) ==
    IF svc = "audio"
    THEN <<"load", "preprocess", "select", "explain", "predict", "cleanup", "assemble">>
    ELSE <<"preprocess", "select", "explain", "predict", "assemble">>

\* the operations of detect(), in the order of its statements
DetectFlow(svc) ==
    IF svc = "audio"
    THEN <<"load", "preprocess", "predict", "select", "explain", "cleanup", "assemble">>
    ELSE <<"preprocess", "predict", "select", "explain", "assemble">>

\* the operation that follows step in a flow
StepAfter(flow, step) ==
    IF \E i \in 1..(Len(flow) - 1) : flow[i] = step
    THEN flow[(CHOOSE i \in 1..(Len(flow) - 1) : flow[i] = step) + 1]
    ELSE "return"

\* the errors os.remove can produce, and "removed" when it succeeds
DeletionOutcomes ==
    {"removed", "FileNotFoundError", "PermissionError", "IsADirectoryError", "OSError"}

\* an except clause that catches FileNotFoundError only
IsFileNotFoundError(e) == e = "FileNotFoundError"

\* except OSError: the errors of os.remove are OSError or subclasses of it
IsOSError(e) ==
    e \in {"OSError", "FileNotFoundError", "PermissionError", "IsADirectoryError"}

NoLocals == [spectrogram_path |-> "unset", tmp_path |-> "unset", prediction |-> "unset",
             explainer |-> "unset", xai_explain |-> "unset", xai_image_base64 |-> "unset"]
NoResult == [xai_method |-> "none", xai_explain |-> "none", prediction |-> "none"]
NoDetail == [error |-> "", traceback |-> "", function |-> ""]
Resp(status, kind, detail, body) ==
    [status |-> status, kind |-> kind, detail |-> detail, body |-> body]
\* body of the response model: the DetectorResult and the encoded overlay
Body(result, png) ==
    [xai_method |-> result.xai_method, xai_explain |-> result.xai_explain,
     prediction |-> result.prediction, xai_image_base64 |-> png]
NoBody == Body(NoResult, "none")
NoResp == Resp(0, "none", NoDetail, NoBody)
NoFiles == [upload |-> "none", spectrogram |-> "none"]
NoDeletion == [upload |-> "not_attempted", spectrogram |-> "not_attempted",
               upload_tries |-> 0, file_closed |-> FALSE]

\* the state between two requests
ReqInit ==
    /\ rq_svc = "audio"
    /\ rq_sel = "gradcam"
    /\ rq_pc = "idle"
    /\ rq_stages = <<>>
    /\ rq_ops = <<>>
    /\ rq_locals = NoLocals
    /\ rq_err = NoExc
    /\ rq_result = NoResult
    /\ rq_resp = NoResp
    /\ rq_files = NoFiles
    /\ rq_del = NoDeletion
    /\ rq_log = <<>>
    /\ rq_count = 0
    /\ rq_raised = NoExc

\* a client posts a file and a selector to the detection endpoint of a service
ReqReceive ==
    /\ rq_pc \in {"idle", "done"}
    /\ rq_count < MaxRequests
    /\ \E svc \in Services, sel \in Selectors :
          /\ rq_svc' = svc
          /\ rq_sel' = sel
    /\ rq_pc' = "validate"
    /\ rq_stages' = <<>>
    /\ rq_ops' = <<>>
    /\ rq_locals' = NoLocals
    /\ rq_err' = NoExc
    /\ rq_result' = NoResult
    /\ rq_resp' = NoResp
    /\ rq_files' = NoFiles
    /\ rq_del' = NoDeletion
    /\ rq_log' = <<>>
    /\ rq_count' = rq_count + 1
    /\ rq_raised' = NoExc
    /\ UNCHANGED <<shapVars, exVars, hpVars, mmVars, ocVars, thVars, hkVars, ecVars, lpVars>>

\* a form field typed as a plain string: every value is accepted
FormAcceptsAnything(svc, sel) == TRUE

\* xai_method: XaiMethod = Form(...): the framework accepts members of the enum
FormAccepts(svc, sel) == sel \in XaiMethod(svc)

\* the framework's answer to a form field that is no member of the enum
ValidationErrorResponse ==
    Resp(422, "validation_error",
         [error |-> "xai_method: input should be a member of the enum",
          traceback |-> "", function |-> ""],
         NoBody)

\* dependency as_form: the form is parsed before the handler runs
ReqValidateForm ==
    /\ rq_pc = "validate"
    /\ IF FormAccepts(rq_svc, rq_sel)
       THEN /\ rq_pc' = "save_upload"
            /\ rq_resp' = rq_resp
       ELSE /\ rq_pc' = "done"
            /\ rq_resp' = ValidationErrorResponse
    /\ UNCHANGED <<rq_svc, rq_sel, rq_stages, rq_ops, rq_locals, rq_err, rq_result,
                   rq_files, rq_del, rq_log, rq_count>>
    /\ UNCHANGED <<shapVars, exVars, hpVars, mmVars, ocVars, rsVars, thVars, hkVars, ecVars, lpVars>>

\* handler, steps 3 and 4: the upload is written to a temporary file
HandlerSaveUpload ==
    /\ rq_pc = "save_upload"
    /\ \E o \in {"ok", "create_fails", "write_fails"} :
          /\ rq_locals' = [rq_locals EXCEPT
                              !.tmp_path = IF o = "create_fails" THEN "unset" ELSE "set"]
          /\ rq_files' = [rq_files EXCEPT
                              !.upload = IF o = "create_fails" THEN "none" ELSE "exists"]
          /\ rq_err' = IF o = "ok" THEN NoExc ELSE Exc("OSError", "cannot store upload")
          /\ rq_pc' = IF o = "ok" THEN "detect" ELSE "finally"
    /\ UNCHANGED <<rq_svc, rq_sel, rq_stages, rq_ops, rq_result, rq_resp, rq_del,
                   rq_log, rq_count>>
    /\ UNCHANGED <<shapVars, exVars, hpVars, mmVars, ocVars, rsVars, thVars, hkVars, ecVars, lpVars>>

\* detect() is entered
DetectEnter ==
    /\ rq_pc = "detect"
    /\ rq_stages' = <<"RECEIVED">>
    /\ rq_pc' = Head(DetectFlow(rq_svc))
    /\ UNCHANGED <<rq_svc, rq_sel, rq_ops, rq_locals, rq_err, rq_result, rq_resp,
                   rq_files, rq_del, rq_log, rq_count>>
    /\ UNCHANGED <<shapVars, exVars, hpVars, mmVars, ocVars, rsVars, thVars, hkVars, ecVars, lpVars>>

\* an operation of detect() returns: the next statement runs
DetectAdvance(step, stage) ==
    /\ rq_ops' = Append(rq_ops, [op |-> step, ok |-> TRUE])
    /\ rq_stages' = IF stage = "" THEN rq_stages ELSE Append(rq_stages, stage)
    /\ rq_pc' = StepAfter(DetectFlow(rq_svc), step)
    /\ rq_err' = rq_err
    /\ rq_raised' = rq_raised

\* an operation of detect() raises e, which reaches detect() as `leaving`:
\* detect() has no handler, the exception leaves it as it is
DetectRaise(step, e, leaving) ==
    /\ rq_ops' = Append(rq_ops, [op |-> step, ok |-> FALSE])
    /\ rq_stages' = Append(rq_stages, "FAILED")
    /\ rq_pc' = "finally"
    /\ rq_err' = leaving
    /\ rq_raised' = e

\* audio detect(), step 1: _ensure_model_loaded
DetectLoad ==
    /\ rq_pc = "load"
    /\ \E ok \in BOOLEAN :
          IF ok THEN DetectAdvance("load", "")
          ELSE DetectRaise("load", Exc("OSError", "cannot load model"),
                           Exc("OSError", "cannot load model"))
    /\ UNCHANGED <<rq_svc, rq_sel, rq_locals, rq_result, rq_resp, rq_files, rq_del,
                   rq_log, rq_count>>
    /\ UNCHANGED <<shapVars, exVars, hpVars, mmVars, ocVars, thVars, hkVars, ecVars, lpVars>>

\* what preprocess can do: the audio service writes the spectrogram image to
\* a temporary file and loads it back
PreprocessOutcomes(svc) ==
    IF svc = "audio" THEN {"ok", "fails_before_artifact", "fails_after_artifact"}
    ELSE {"ok", "fails"}

\* detect(): self._model.preprocess(path)
DetectPreprocess ==
    /\ rq_pc = "preprocess"
    /\ \E o \in PreprocessOutcomes(rq_svc) :
          /\ rq_files' = [rq_files EXCEPT
                !.spectrogram = IF rq_svc = "audio" /\ o \in {"ok", "fails_after_artifact"}
                                THEN "exists" ELSE @]
          /\ rq_locals' = [rq_locals EXCEPT
                !.spectrogram_path = IF rq_svc = "audio" /\ o = "ok" THEN "set" ELSE @]
          /\ IF o = "ok" THEN DetectAdvance("preprocess", "PREPROCESSED")
             ELSE DetectRaise("preprocess", Exc("Exception", "preprocessing failed"),
                              Exc("Exception", "preprocessing failed"))
    /\ UNCHANGED <<rq_svc, rq_sel, rq_result, rq_resp, rq_del, rq_log, rq_count>>
    /\ UNCHANGED <<shapVars, exVars, hpVars, mmVars, ocVars, thVars, hkVars, ecVars, lpVars>>

\* decisions a prediction carries
Decisions(svc) ==
    IF svc = "audio" THEN {"Real Audio", "Fake Audio Detected"}
    ELSE {"Cancer suspected", "No cancer detected"}

\* the exceptions predict() of the service's model wrapper can raise
PredictExceptions(svc) ==
    IF svc = "audio"
    THEN {Exc("RuntimeError", "Model is not loaded. Call load_model() first."),
          Exc("ValueError", "Unexpected prediction shape")}
    ELSE {Exc("RuntimeError", "forward pass failed"), Exc("KeyError", "target_label")}

\* detect(): self._model.predict(x); the wrapper has no handler of its own
DetectPredict ==
    /\ rq_pc = "predict"
    /\ \/ \E o \in Decisions(rq_svc) :
             /\ rq_locals' = [rq_locals EXCEPT !.prediction = o]
             /\ DetectAdvance("predict", "PREDICTED")
       \/ \E e \in PredictExceptions(rq_svc) :
             /\ rq_locals' = rq_locals
             /\ DetectRaise("predict", e, e)
    /\ UNCHANGED <<rq_svc, rq_sel, rq_result, rq_resp, rq_files, rq_del, rq_log, rq_count>>
    /\ UNCHANGED <<shapVars, exVars, hpVars, mmVars, ocVars, thVars, hkVars, ecVars, lpVars>>

\* detect(): the if / elif chain that builds the explainer
DetectSelect ==
    /\ rq_pc = "select"
    /\ IF rq_sel \in XaiMethod(rq_svc)
       THEN \E ok \in BOOLEAN :
               /\ rq_locals' = [rq_locals EXCEPT !.explainer = IF ok THEN rq_sel ELSE @]
               /\ IF ok THEN DetectAdvance("select", "")
                  ELSE DetectRaise("select", Exc("ValueError", "explainer construction failed"),
                                   Exc("ValueError", "explainer construction failed"))
       ELSE /\ rq_locals' = rq_locals
            /\ DetectRaise("select", Exc("ValueError", "Unknown XAI method"),
                           Exc("ValueError", "Unknown XAI method"))
    /\ UNCHANGED <<rq_svc, rq_sel, rq_result, rq_resp, rq_files, rq_del, rq_log, rq_count>>
    /\ UNCHANGED <<shapVars, exVars, hpVars, mmVars, ocVars, thVars, hkVars, ecVars, lpVars>>

\* the exceptions raised inside explain() of the selected explainer that its
\* body does not handle itself
ExplainExceptions(svc, sel) ==
    IF sel = "shap"
    THEN {Exc("ValueError", "Expected image with shape (H,W,3)")}
    ELSE IF svc = "audio" /\ sel = "gradcam"
    THEN {Exc("ValueError", "Unexpected predictions rank"),
          Exc("RuntimeError", "Gradients are None")}
    ELSE IF svc = "audio"
    THEN {Exc("ValueError", "No LIME local explanation weights found"),
          Exc("RuntimeError", "explain_instance failed")}
    ELSE IF sel = "gradcam"
    THEN {Exc("ValueError", "Unknown label"),
          Exc("RuntimeError", "Grad-CAM hooks did not capture tensors.")}
    ELSE {Exc("ValueError", "base_image shape does not match x shape"),
          Exc("RuntimeError", "explain_instance failed")}

\* a handler that raises a new exception carrying the message of the one it caught
explain_except_wrapping(e) == Exc("RuntimeError", e.msg)

\* explain() of a Grad-CAM or LIME explainer, except Exception as exc:
\* self.logger.error(...); raise -- the exception caught is raised again
explain_except(e) == e

\* the line the handler of a Grad-CAM or LIME explain() logs
ExplainFailureLine == "END generating overlay with failure"

\* detect(): explainer.explain(...)
DetectExplain ==
    /\ rq_pc = "explain"
    /\ \/ /\ rq_locals' = [rq_locals EXCEPT !.xai_explain = "image"]
          /\ rq_log' = rq_log
          /\ DetectAdvance("explain", "EXPLAINED")
       \/ \E e \in ExplainExceptions(rq_svc, rq_locals.explainer) :
             /\ rq_locals' = rq_locals
             /\ IF rq_locals.explainer \in {"gradcam", "lime"}
                THEN /\ rq_log' = Append(rq_log, ExplainFailureLine)
                     /\ DetectRaise("explain", e, explain_except(e))
                ELSE /\ rq_log' = rq_log
                     /\ DetectRaise("explain", e, e)
    /\ UNCHANGED <<rq_svc, rq_sel, rq_result, rq_resp, rq_files, rq_del, rq_count>>
    /\ UNCHANGED <<shapVars, exVars, hpVars, mmVars, ocVars, thVars, hkVars, ecVars, lpVars>>

\* audio detect(), step 5: the spectrogram file is removed, best effort
DetectCleanup ==
    /\ rq_pc = "cleanup"
    /\ IF rq_locals.spectrogram_path = "set" /\ rq_files.spectrogram = "exists"
       THEN \E e \in DeletionOutcomes :
               /\ rq_del' = [rq_del EXCEPT !.spectrogram = e]
               /\ rq_files' = [rq_files EXCEPT
                                  !.spectrogram = IF e = "removed" THEN "removed" ELSE @]
               /\ rq_log' = IF IsOSError(e)
                            THEN Append(rq_log, "Failed to cleanup spectrogram") ELSE rq_log
               /\ IF e = "removed" \/ IsOSError(e)
                  THEN DetectAdvance("cleanup", "")
                  ELSE DetectRaise("cleanup", Exc(e, "os.remove failed"), Exc(e, "os.remove failed"))
       ELSE /\ UNCHANGED <<rq_del, rq_files, rq_log>>
            /\ DetectAdvance("cleanup", "")
    /\ UNCHANGED <<rq_svc, rq_sel, rq_locals, rq_result, rq_resp, rq_count>>
    /\ UNCHANGED <<shapVars, exVars, hpVars, mmVars, ocVars, thVars, hkVars, ecVars, lpVars>>

\* a result assembled without its overlay
DetectorResultWithoutOverlay(xai_method, xai_explain, prediction) ==
    [xai_method |-> xai_method, xai_explain |-> "none", prediction |-> prediction]

\* DetectorResult(xai_method=, xai_explain=, ..._prediction=): every field is
\* required and validated
DetectorResult(xai_method, xai_explain, prediction) ==
    IF xai_method = "unset" \/ xai_explain = "unset" \/ prediction = "unset"
    THEN NoResult
    ELSE [xai_method |-> xai_method, xai_explain |-> xai_explain, prediction |-> prediction]

\* detect(), last step: the DetectorResult is built and returned
DetectAssemble ==
    /\ rq_pc = "assemble"
    /\ \E r \in {DetectorResult(rq_locals.explainer, rq_locals.xai_explain,
                                rq_locals.prediction)} :
          IF r = NoResult
          THEN /\ rq_result' = rq_result
               /\ rq_ops' = Append(rq_ops, [op |-> "assemble", ok |-> FALSE])
               /\ rq_stages' = Append(rq_stages, "FAILED")
               /\ rq_err' = Exc("ValidationError", "DetectorResult field required")
               /\ rq_pc' = "finally"
          ELSE /\ rq_result' = r
               /\ rq_ops' = Append(rq_ops, [op |-> "assemble", ok |-> TRUE])
               /\ rq_stages' = Append(rq_stages, "ASSEMBLED")
               /\ rq_err' = rq_err
               /\ rq_pc' = "encode"
    /\ UNCHANGED <<rq_svc, rq_sel, rq_locals, rq_resp, rq_files, rq_del, rq_log, rq_count>>
    /\ UNCHANGED <<shapVars, exVars, hpVars, mmVars, ocVars, rsVars, thVars, hkVars, ecVars, lpVars>>

\* handler, steps 6 to 8: the overlay is encoded and the response model built
HandlerEncode ==
    /\ rq_pc = "encode"
    /\ \E o \in {"png", "raise"} :
          /\ rq_locals' = [rq_locals EXCEPT !.xai_image_base64 = IF o = "raise" THEN @ ELSE o]
          /\ rq_err' = IF o = "raise" THEN Exc("ValueError", "cannot encode overlay")
                       ELSE rq_err
    /\ rq_pc' = "finally"
    /\ UNCHANGED <<rq_svc, rq_sel, rq_stages, rq_ops, rq_result, rq_resp, rq_files,
                   rq_del, rq_log, rq_count>>
    /\ UNCHANGED <<shapVars, exVars, hpVars, mmVars, ocVars, rsVars, thVars, hkVars, ecVars, lpVars>>

\* a finally block that removes the temporary file only when no exception is
\* on its way out of the handler
TmpPathSetOnSuccess(tmp_path, err) == tmp_path = "set" /\ err = NoExc

\* handler, finally: `if tmp_path:`, whatever is on its way out of the handler
TmpPathSet(tmp_path, err) == tmp_path = "set"

\* handler, finally: the upload is closed and its temporary file removed
HandlerFinally ==
    /\ rq_pc = "finally"
    /\ IF TmpPathSet(rq_locals.tmp_path, rq_err)
       THEN \E e \in DeletionOutcomes :
               /\ rq_del' = [rq_del EXCEPT !.upload = e, !.file_closed = TRUE,
                                           !.upload_tries = @ + 1]
               /\ rq_files' = [rq_files EXCEPT
                                  !.upload = IF e = "removed" THEN "removed" ELSE @]
               /\ rq_log' = IF IsOSError(e) THEN Append(rq_log, "Cleanup failed") ELSE rq_log
               /\ rq_err' = IF e = "removed" \/ IsOSError(e) THEN rq_err
                            ELSE Exc(e, "os.remove failed")
       ELSE /\ rq_del' = [rq_del EXCEPT !.file_closed = TRUE]
            /\ UNCHANGED <<rq_files, rq_log, rq_err>>
    /\ rq_pc' = "respond"
    /\ UNCHANGED <<rq_svc, rq_sel, rq_stages, rq_ops, rq_locals, rq_result, rq_resp,
                   rq_count>>
    /\ UNCHANGED <<shapVars, exVars, hpVars, mmVars, ocVars, rsVars, thVars, hkVars, ecVars, lpVars>>

\* the decorators of the handler, in the order Python applies them (the one
\* nearest to the function first)
HandlerDecorators == <<"router.post", "auto_handle_errors">>

\* router.post registers the function it is handed and returns it unchanged:
\* the wrapper auto_handle_errors builds is on the request path only when it
\* is applied before router.post
RegisteredWithWrapper(decorators) ==
    \E i, j \in 1..Len(decorators) :
        /\ i < j
        /\ decorators[i] = "auto_handle_errors"
        /\ decorators[j] = "router.post"

\* the handler's name, func.__name__
HandlerName(svc) == IF svc = "audio" THEN "fake_audio_detection" ELSE "lung_detection"

\* auto_handle_errors: what leaves the wrapper for an exception of the handler
auto_handle_errors(svc, e) ==
    IF e.type = "HTTPException" THEN e
    ELSE [type |-> "HTTPException", msg |-> e.msg, status |-> 500,
          detail |-> [error |-> e.msg, traceback |-> "traceback", function |-> HandlerName(svc)]]

\* the framework's answer to an exception that leaves the registered endpoint:
\* an HTTPException gives its status and detail, anything else the server
\* error page (the application runs with debug=True)
FrameworkResponse(e) ==
    IF e.type = "HTTPException"
    THEN Resp(e.status, "http_exception", e.detail, NoBody)
    ELSE Resp(500, "server_error_page", NoDetail, NoBody)

\* the response of the endpoint for the handler's outcome
EndpointResponse(svc, e, result, png) ==
    IF e = NoExc
    THEN Resp(200, "response_model", NoDetail, Body(result, png))
    ELSE IF RegisteredWithWrapper(HandlerDecorators)
    THEN FrameworkResponse(auto_handle_errors(svc, e))
    ELSE FrameworkResponse(e)

\* the endpoint answers
EndpointRespond ==
    /\ rq_pc = "respond"
    /\ rq_resp' = EndpointResponse(rq_svc, rq_err, rq_result, rq_locals.xai_image_base64)
    /\ rq_pc' = "done"
    /\ UNCHANGED <<rq_svc, rq_sel, rq_stages, rq_ops, rq_locals, rq_err, rq_result,
                   rq_files, rq_del, rq_log, rq_count>>
    /\ UNCHANGED <<shapVars, exVars, hpVars, mmVars, ocVars, rsVars, thVars, hkVars, ecVars, lpVars>>

ReqNext ==
    \/ ReqReceive
    \/ ReqValidateForm
    \/ HandlerSaveUpload
    \/ DetectEnter
    \/ DetectLoad
    \/ DetectPreprocess
    \/ DetectPredict
    \/ DetectSelect
    \/ DetectExplain
    \/ DetectCleanup
    \/ DetectAssemble
    \/ HandlerEncode
    \/ HandlerFinally
    \/ EndpointRespond

-----------------------------------------------------------------------------
(* The other explainers: audio Grad-CAM and LIME, lung Grad-CAM and LIME *)

\* the explainer classes besides XaiShap
ExplainerKinds == {"audio_gradcam", "audio_lime", "lung_gradcam", "lung_lime"}

\* a fresh explainer of the given classes, no explain() call made yet
ExInit(kinds) ==
    /\ ex_kind \in kinds
    /\ ex_pc = "idle"
    /\ ex_in = [class_index |-> 0, base_image |-> NoArr, target_label |-> "",
                return_heatmap |-> FALSE, has_pathologies |-> TRUE]
    /\ ex_out = NoOutcome
    /\ ex_pending = NoOutcome
    /\ ex_class = NoClass
    /\ ex_preds = <<>>
    /\ ex_hooks = 0
    /\ ex_hooked = 0
    /\ ex_passes = 0
    /\ ex_calls = 0
    /\ ex_cond = "none"

\* predictions of the VGG16 proxy: the top class is the first or the last one
ProxyPredictions ==
    { [i \in 1..ProxyNumClasses |-> IF i = k THEN FDen \div 2 ELSE FDen \div 10] :
          k \in {1, ProxyNumClasses} }

\* model.pathologies of the lung classifier
Pathologies == {"Lung Lesion", "Mass"}

\* target labels handed to the lung explainers
TargetLabels == {"Lung Lesion", "Not A Pathology"}

\* the model input x of the lung service as a grayscale image in [0, 1]
XGray == Arr("float", <<1, 2>>, <<0, FDen>>)

\* base images handed to the lung explainers: None, grayscale in [0, 1], on
\* the 0..255 scale, uint8, of another size than x, and with three axes
LungBaseImages ==
    { NoArr,
      Arr("float", <<1, 2>>, <<FDen \div 2, FDen>>),
      Arr("float", <<1, 2>>, <<0, 255 * FDen>>),
      Arr("uint8", <<1, 2>>, <<0, 200>>),
      Arr("float", <<2, 1>>, <<0, FDen>>),
      Arr("float", <<1, 2, 3>>, <<0, 0, 0, FDen, FDen, FDen>>) }

\* the arguments of an explain() call
ExplainInputs(kind) ==
    IF kind \in {"audio_gradcam", "audio_lime"}
    THEN [class_index : ClassIndices \cup {ProxyNumClasses}, base_image : BaseImages,
          target_label : {""}, return_heatmap : {FALSE}, has_pathologies : {TRUE}]
    ELSE [class_index : {0}, base_image : LungBaseImages,
          target_label : TargetLabels, return_heatmap : BOOLEAN, has_pathologies : BOOLEAN]

\* explain() is called on the explainer
ExplainStart ==
    /\ ex_pc = "idle"
    /\ ex_kind \in ExplainerKinds
    /\ ex_calls < MaxCalls
    /\ \E inp \in ExplainInputs(ex_kind) : ex_in' = inp
    /\ ex_pc' = IF ex_kind \in {"lung_gradcam", "lung_lime"} THEN "validate" ELSE ex_kind
    /\ ex_out' = NoOutcome
    /\ ex_pending' = NoOutcome
    /\ ex_class' = NoClass
    /\ ex_preds' = <<>>
    /\ ex_hooked' = 0
    /\ ex_passes' = 0
    /\ ex_calls' = ex_calls + 1
    /\ ex_cond' = "none"
    /\ UNCHANGED <<ex_kind, ex_hooks>>
    /\ UNCHANGED <<shapVars, reqVars, hpVars, mmVars, ocVars, rsVars, thVars, hkVars, lpVars>>

\* ---- audio Grad-CAM ----

\* _compute_heatmap: the class whose score is differentiated
GradCamClass(preds, class_index) ==
    IF class_index < 0 \/ class_index >= Len(preds) THEN ArgMax(preds) ELSE class_index

\* what the proxy model and the gradient tape do
GradCamBehaviours ==
    [kind : {"forward_raises", "rank_bad", "grads_none"}, preds : ProxyPredictions,
     pattern : {<<0, 0>>}]
    \cup [kind : {"ok"}, preds : ProxyPredictions, pattern : HeatPatterns]

\* np.maximum(heatmap, 0.0)
Relu(a) == Arr("float", a.shape, [i \in 1..Len(a.data) |-> Max2(a.data[i], 0)])

_compute_heatmap(ext, class_index) ==
    IF ext.kind = "forward_raises" THEN Raise("ValueError", "incompatible input shape")
    ELSE IF ext.kind = "rank_bad" THEN Raise("ValueError", "Unexpected predictions rank")
    ELSE IF ext.kind = "grads_none" THEN Raise("RuntimeError", "Gradients are None")
    ELSE Ret(normalize_01(Relu(MapOf(ext.pattern, 1, 2))))

\* the jet colour of a level h in [0, 1]: channel k is 0 (red), 1 (green), 2 (blue)
Jet01(h, k) == Clip((3 * FDen) \div 2 - Abs(4 * Clip(h, 0, FDen) - (3 - k) * FDen), 0, FDen)

\* np.uint8(255 * np.clip(h, 0.0, 1.0))
HeatU8(h) == (255 * Clip(h, 0, FDen)) \div FDen

\* cv2.applyColorMap(hm_u8, cv2.COLORMAP_JET), channel k of the colour of level v
JetU8(v, k) == (Jet01((v * FDen) \div 255, k) * 255) \div FDen

\* cv2.addWeighted(base, 0.6, heat, 0.4, 0.0): rounded and saturated to 0..255
AddWeighted(b, h) == Clip((BaseWeightPct * b + HeatmapWeightPct * h + 50) \div 100, 0, 255)

\* cv2.resize(heatmap, (width, height), interpolation=cv2.INTER_LINEAR)
cv2_resize(heatmap, height, width) == resize_2d(heatmap, <<height, width>>)

audio_gradcam_explain(base_image, class_index, ext) ==
    LET blend(rgb, hm) ==
            Ret(Arr("uint8", rgb.shape,
                    [n \in 1..Len(rgb.data) |->
                        AddWeighted(rgb.data[n],
                                    JetU8(HeatU8(hm.data[((n - 1) \div 3) + 1]), (n - 1) % 3))]))
        resized(rgb, rh) == IF Raised(rh) THEN rh ELSE blend(rgb, rh.val)
        heat(rgb, hm) ==
            IF Raised(hm) THEN hm
            ELSE resized(rgb, cv2_resize(hm.val, rgb.shape[1], rgb.shape[2]))
        go(rb) == IF Raised(rb) THEN rb ELSE heat(rb.val, _compute_heatmap(ext, class_index))
    IN  go(ensure_rgb_uint8(base_image))

\* explain() of the audio Grad-CAM explainer
AudioGradCamExplain ==
    /\ ex_pc = "audio_gradcam"
    /\ \E ext \in GradCamBehaviours :
          /\ ex_out' = audio_gradcam_explain(ex_in.base_image, ex_in.class_index, ext)
          /\ ex_preds' = ext.preds
          /\ ex_class' = IF ext.kind = "ok" /\ ~Raised(ensure_rgb_uint8(ex_in.base_image))
                         THEN GradCamClass(ext.preds, ex_in.class_index) ELSE NoClass
          /\ ex_cond' = IF ext.kind = "grads_none" /\ ~Raised(ensure_rgb_uint8(ex_in.base_image))
                        THEN "grads_none" ELSE ex_cond
    /\ ex_pc' = "idle"
    /\ UNCHANGED <<ex_kind, ex_in, ex_pending, ex_hooks, ex_hooked, ex_passes, ex_calls>>
    /\ UNCHANGED <<shapVars, reqVars, hpVars, mmVars, ocVars, rsVars, thVars, hkVars, lpVars>>

\* ---- audio LIME ----

\* what the lime library and the model do
LimeBehaviours ==
    [kind : {"lime_raises", "segments_bad", "local_exp_empty"},
     preds : Predictions, pattern : {<<0, 0>>}]
    \cup [kind : {"ok"}, preds : Predictions, pattern : HeatPatterns]

\* keys of explanation.local_exp in insertion order: explain_instance is
\* called without labels, so lime explains its top labels and inserts them
\* by ascending score
LocalExpKeys(preds) ==
    SortSeq([i \in 1..Len(preds) |-> i - 1], LAMBDA a, b : preds[a + 1] < preds[b + 1])

\* the label whose weights _lime_weights_to_pixel_heatmap reads
LimeLabel(keys, label) ==
    IF \E i \in 1..Len(keys) : keys[i] = label THEN label
    ELSE IF Len(keys) > 0 THEN keys[1]
    ELSE NoClass

_lime_weights_to_pixel_heatmap(ext, label, h, w) ==
    IF ext.kind = "segments_bad"
    THEN Raise("ValueError", "Expected explanation.segments to have shape (H, W)")
    ELSE IF ext.kind = "local_exp_empty"
    THEN Raise("ValueError", "No LIME local explanation weights found")
    ELSE Ret(MapOf(ext.pattern, h, w))

audio_lime_explain(base_image, class_index, ext) ==
    LET draw(img01, hm) ==
            IF Raised(hm) THEN hm
            ELSE IF Len(hm.val.data) = 0
            THEN Raise("ValueError", "zero-size array to reduction operation minimum")
            ELSE render_signed_overlay(img01, hm.val, DefaultOverlayConfig)
        run(img01) ==
            IF ext.kind = "lime_raises" THEN Raise("RuntimeError", "explain_instance failed")
            ELSE draw(img01, _lime_weights_to_pixel_heatmap(ext, class_index,
                                                            img01.shape[1], img01.shape[2]))
        go(r) == IF Raised(r) THEN r ELSE run(as_float01(r.val))
    IN  go(ensure_rgb(base_image))

\* explain() of the audio LIME explainer
AudioLimeExplain ==
    /\ ex_pc = "audio_lime"
    /\ \E ext \in LimeBehaviours :
          /\ ex_out' = audio_lime_explain(ex_in.base_image, ex_in.class_index, ext)
          /\ ex_preds' = ext.preds
          /\ ex_class' = IF ext.kind = "ok" /\ ~Raised(ensure_rgb(ex_in.base_image))
                         THEN LimeLabel(LocalExpKeys(ext.preds), ex_in.class_index)
                         ELSE NoClass
    /\ ex_pc' = "idle"
    /\ UNCHANGED <<ex_kind, ex_in, ex_pending, ex_hooks, ex_hooked, ex_passes, ex_calls>>
    /\ UNCHANGED <<shapVars, reqVars, hpVars, mmVars, ocVars, rsVars, thVars, hkVars, ecVars, lpVars>>

\* ---- lung Grad-CAM and LIME ----

\* _validate_target_label without its second step: any label passes
_validate_target_label_any(has_pathologies, target_label) ==
    IF ~has_pathologies
    THEN Raise("ValueError", "Model must have .pathologies (TorchXRayVision DenseNet).")
    ELSE Ret(NoArr)

\* the label check both lung explainers start with
_validate_target_label(has_pathologies, target_label) ==
    IF ~has_pathologies
    THEN Raise("ValueError", "Model must have .pathologies (TorchXRayVision DenseNet).")
    ELSE IF target_label \notin Pathologies
    THEN Raise("ValueError", "Unknown label")
    ELSE Ret(NoArr)

\* explain(), first statement of the try block: the target label is validated
LungValidate ==
    /\ ex_pc = "validate"
    /\ \E r \in {_validate_target_label(ex_in.has_pathologies, ex_in.target_label)} :
          IF Raised(r)
          THEN /\ ex_out' = r
               /\ ex_pc' = "idle"
          ELSE /\ ex_out' = ex_out
               /\ ex_pc' = IF ex_kind = "lung_gradcam" THEN "find_conv" ELSE "lime_run"
    /\ UNCHANGED <<ex_kind, ex_in, ex_pending, ex_class, ex_preds, ex_hooks, ex_hooked,
                   ex_passes, ex_calls>>
    /\ UNCHANGED <<shapVars, reqVars, hpVars, mmVars, ocVars, rsVars, thVars, hkVars, ecVars, lpVars>>

\* _find_last_conv: the last Conv2d module of the model, RuntimeError without one
_find_last_conv(has_conv) ==
    IF has_conv THEN Ret(NoArr)
    ELSE Raise("RuntimeError", "Grad-CAM requires Conv2d layers (none found).")

\* Grad-CAM explain(), step 3: _find_last_conv
LungFindConv ==
    /\ ex_pc = "find_conv"
    /\ \E has_conv \in BOOLEAN :
          IF has_conv
          THEN /\ ex_out' = ex_out
               /\ ex_pc' = "hooks"
               /\ ex_cond' = ex_cond
          ELSE /\ ex_out' = _find_last_conv(has_conv)
               /\ ex_pc' = "idle"
               /\ ex_cond' = "no_conv"
    /\ UNCHANGED <<ex_kind, ex_in, ex_pending, ex_class, ex_preds, ex_hooks, ex_hooked,
                   ex_passes, ex_calls>>
    /\ UNCHANGED <<shapVars, reqVars, hpVars, mmVars, ocVars, rsVars, thVars, hkVars, lpVars>>

\* _compute_gradcam, step 4: the forward and the backward hook are registered
LungRegisterHooks ==
    /\ ex_pc = "hooks"
    /\ ex_hooks' = ex_hooks + 2
    /\ ex_hooked' = ex_hooked + 2
    /\ ex_pc' = "passes"
    /\ UNCHANGED <<ex_kind, ex_in, ex_out, ex_pending, ex_class, ex_preds, ex_passes, ex_calls>>
    /\ UNCHANGED <<shapVars, reqVars, hpVars, mmVars, ocVars, rsVars, thVars, hkVars, ecVars, lpVars>>

\* XaiGradCAM._normalize_01 (lung): the arithmetic of normalize_01; the maps
\* it is given hold at least one element
_normalize_01(arr) == normalize_01(arr)

\* what the model does during the forward and the backward pass
LungPassBehaviours ==
    [kind : {"forward_raises", "backward_raises", "no_capture"}, pattern : {<<0, 0>>}]
    \cup [kind : {"ok"}, pattern : ImpPatterns]

\* a computation that takes captures that are missing for an all-zero map
_compute_gradcam_lenient(ext) ==
    IF ext.kind = "forward_raises" THEN Raise("RuntimeError", "forward pass failed")
    ELSE IF ext.kind = "backward_raises" THEN Raise("RuntimeError", "backward pass failed")
    ELSE Ret(_normalize_01(Relu(MapOf(ext.pattern, XGray.shape[1], XGray.shape[2]))))

\* _compute_gradcam, steps 5 to 10, inside its try block
_compute_gradcam(ext) ==
    IF ext.kind = "forward_raises" THEN Raise("RuntimeError", "forward pass failed")
    ELSE IF ext.kind = "backward_raises" THEN Raise("RuntimeError", "backward pass failed")
    ELSE IF ext.kind = "no_capture"
    THEN Raise("RuntimeError", "Grad-CAM hooks did not capture tensors.")
    ELSE Ret(_normalize_01(Relu(MapOf(ext.pattern, XGray.shape[1], XGray.shape[2]))))

\* _compute_gradcam: the forward pass and the backward pass
LungPasses ==
    /\ ex_pc = "passes"
    /\ \E ext \in LungPassBehaviours :
          /\ ex_pending' = _compute_gradcam(ext)
          /\ ex_passes' = ex_passes + (IF ext.kind = "forward_raises" THEN 1 ELSE 2)
          /\ ex_cond' = IF ext.kind = "no_capture" THEN "no_capture" ELSE ex_cond
    /\ ex_pc' = "remove_hooks"
    /\ UNCHANGED <<ex_kind, ex_in, ex_out, ex_class, ex_preds, ex_hooks, ex_hooked, ex_calls>>
    /\ UNCHANGED <<shapVars, reqVars, hpVars, mmVars, ocVars, rsVars, thVars, hkVars, lpVars>>

\* _compute_gradcam, finally: both hooks are removed
LungRemoveHooks ==
    /\ ex_pc = "remove_hooks"
    /\ ex_hooks' = ex_hooks - 2
    /\ IF Raised(ex_pending)
       THEN /\ ex_out' = ex_pending
            /\ ex_pc' = "idle"
       ELSE /\ ex_out' = ex_out
            /\ ex_pc' = "overlay"
    /\ UNCHANGED <<ex_kind, ex_in, ex_pending, ex_class, ex_preds, ex_hooked, ex_passes,
                   ex_calls>>
    /\ UNCHANGED <<shapVars, reqVars, hpVars, mmVars, ocVars, rsVars, thVars, hkVars, ecVars, lpVars>>

\* a grayscale image brought to [0, 1]: divided by 255 when above 1, clipped
Gray01(gray) ==
    LET scale(g, mx) ==
            Arr("float", gray.shape,
                [i \in 1..Len(g) |-> Clip(IF mx > FDen THEN g[i] \div 255 ELSE g[i], 0, FDen)])
        go(g) == scale(g, SeqMax(g))
    IN  go(AsFix(gray))

\* Grad-CAM explain(), step 6: the base grayscale image
LungBaseGray(base_image) ==
    IF base_image = NoArr THEN Ret(XGray)
    ELSE IF Len(base_image.shape) # 2
    THEN Raise("ValueError", "base_image must be [H,W]")
    ELSE Ret(Gray01(base_image))

_overlay_heatmap(base_gray_01, heatmap_01) ==
    IF base_gray_01.shape # heatmap_01.shape
    THEN Raise("ValueError", "base and heatmap must have same shape")
    ELSE Ret(Arr("float", base_gray_01.shape \o <<3>>,
                 [n \in 1..(3 * Len(base_gray_01.data)) |->
                     Clip(((100 - LungAlphaPct) * Clip(base_gray_01.data[((n - 1) \div 3) + 1],
                                                       0, FDen)
                           + LungAlphaPct * Jet01(heatmap_01.data[((n - 1) \div 3) + 1],
                                                  (n - 1) % 3)) \div 100,
                          0, FDen)]))

\* Grad-CAM explain(), steps 5 to 8: the heat map itself or its overlay
lung_gradcam_result(heatmap, base_image, return_heatmap) ==
    LET draw(bg) == IF Raised(bg) THEN bg ELSE _overlay_heatmap(bg.val, heatmap)
    IN  IF return_heatmap THEN Ret(heatmap) ELSE draw(LungBaseGray(base_image))

LungOverlay ==
    /\ ex_pc = "overlay"
    /\ ex_out' = lung_gradcam_result(ex_pending.val, ex_in.base_image, ex_in.return_heatmap)
    /\ ex_pc' = "idle"
    /\ UNCHANGED <<ex_kind, ex_in, ex_pending, ex_class, ex_preds, ex_hooks, ex_hooked,
                   ex_passes, ex_calls>>
    /\ UNCHANGED <<shapVars, reqVars, hpVars, mmVars, ocVars, rsVars, thVars, hkVars, ecVars, lpVars>>

\* what lime does: it raises, or hands back a mask of the kept superpixels
LungLimeBehaviours ==
    [kind : {"lime_raises"}, mask : {<<0, 0>>}]
    \cup [kind : {"ok"}, mask : {<<0, 0>>, <<1, 0>>}]

\* _gray01_to_rgb01, or _x_to_rgb01 when no base image is given
LungDisplayRgb(base_image) ==
    IF base_image = NoArr THEN Ret(Arr("float", XGray.shape \o <<3>>, Replicate3(XGray.data)))
    ELSE IF Len(base_image.shape) # 2
    THEN Raise("ValueError", "Expected grayscale image [H,W]")
    ELSE IF base_image.shape # XGray.shape
    THEN Raise("ValueError", "base_image shape does not match x shape")
    ELSE Ret(Arr("float", base_image.shape \o <<3>>, Replicate3(Gray01(base_image).data)))

\* mark_boundaries(image, mask): the pixels on a boundary of the mask are
\* drawn in yellow (1, 1, 0)
mark_boundaries(image, mask) ==
    Arr("float", image.shape,
        [n \in 1..Len(image.data) |->
            IF mask[(((n - 1) \div 3) % Len(mask)) + 1] = 1
            THEN (IF (n - 1) % 3 = 2 THEN 0 ELSE FDen)
            ELSE image.data[n]])

lung_lime_explain(base_image, ext) ==
    LET run(disp) ==
            IF Raised(disp) THEN disp
            ELSE IF ext.kind = "lime_raises" THEN Raise("RuntimeError", "explain_instance failed")
            ELSE Ret(Arr("float", disp.val.shape,
                         [n \in 1..Len(disp.val.data) |->
                             Clip(mark_boundaries(disp.val, ext.mask).data[n], 0, FDen)]))
    IN  run(LungDisplayRgb(base_image))

\* LIME explain(), after the label check: lime queries the model and the
\* boundaries are drawn
LungLimeRun ==
    /\ ex_pc = "lime_run"
    /\ \E ext \in LungLimeBehaviours :
          /\ ex_out' = lung_lime_explain(ex_in.base_image, ext)
          /\ ex_passes' = IF Raised(LungDisplayRgb(ex_in.base_image)) THEN ex_passes
                          ELSE ex_passes + 1
    /\ ex_pc' = "idle"
    /\ UNCHANGED <<ex_kind, ex_in, ex_pending, ex_class, ex_preds, ex_hooks, ex_hooked,
                   ex_calls>>
    /\ UNCHANGED <<shapVars, reqVars, hpVars, mmVars, ocVars, rsVars, thVars, hkVars, ecVars, lpVars>>

ExplainNext ==
    \/ ExplainStart
    \/ AudioGradCamExplain
    \/ AudioLimeExplain
    \/ LungValidate
    \/ LungFindConv
    \/ LungRegisterHooks
    \/ LungPasses
    \/ LungRemoveHooks
    \/ LungOverlay
    \/ LungLimeRun

-----------------------------------------------------------------------------
(* The helper toolboxes called on their own, and OverlayConfig *)

\* the colours of the lung service's signed overlay
LungPosRgb == <<Hundredths(100), Hundredths(10), Hundredths(10)>>
LungNegRgb == <<Hundredths(10), Hundredths(10), Hundredths(100)>>

\* XaiHelpers.signed_heat_to_rgba of the lung service
lung_signed_heat_to_rgba(heat_norm, alpha_min, alpha_max) ==
    LET px(v, k) ==
            IF k = 4
            THEN Clip(alpha_min + ((alpha_max - alpha_min) * Abs(v)) \div FDen, 0, FDen)
            ELSE IF v >= 0 THEN LungPosRgb[k] ELSE LungNegRgb[k]
    IN  Arr("float", <<heat_norm.shape[1], heat_norm.shape[2], 4>>,
            [n \in 1..(4 * Len(heat_norm.data)) |->
                px(Clip(heat_norm.data[((n - 1) \div 4) + 1], -FDen, FDen),
                   ((n - 1) % 4) + 1)])

\* XaiHelpers.clip_and_normalize_signed of the lung service: the same
\* statements as in the audio service
lung_clip_and_normalize_signed(heat, clip_percentile) ==
    clip_and_normalize_signed(heat, clip_percentile)

\* XaiHelpers.alpha_blend_rgb01_rgba01 (lung): clip, shape checks, blend, and
\* to_uint8_rgb, which scales the clipped result to uint8 as alpha_blend does
alpha_blend_rgb01_rgba01(base_rgb01, overlay_rgba01) == alpha_blend(base_rgb01, overlay_rgba01)

\* XaiHelpers.render_signed_overlay_rgb01 (lung): a heat map of another shape
\* than the base image is rejected
render_signed_overlay_rgb01(base_rgb01, signed_heat, cfg) ==
    IF Len(base_rgb01.shape) # 3 \/ base_rgb01.shape[3] # 3
    THEN Raise("ValueError", "Expected base RGB [H,W,3]")
    ELSE IF signed_heat.shape # <<base_rgb01.shape[1], base_rgb01.shape[2]>>
    THEN Raise("ValueError", "signed_heat must match spatial shape")
    ELSE alpha_blend_rgb01_rgba01(
             base_rgb01,
             lung_signed_heat_to_rgba(
                 lung_clip_and_normalize_signed(signed_heat, cfg.clip_percentile),
                 cfg.alpha_min, cfg.alpha_max))

\* images handed to ensure_rgb: H x W, H x W x 1, H x W x 4, H x W x 3, and
\* shapes that are no image (one axis, two or five channels, four axes)
ShapeImages ==
    { Arr("float", <<1, 2>>, <<100, 900>>),
      Arr("uint8", <<2, 2>>, <<1, 2, 3, 4>>),
      Arr("float", <<1, 2, 1>>, <<300, 700>>),
      Arr("uint8", <<1, 1, 4>>, <<10, 20, 30, 40>>),
      Arr("float", <<1, 2, 4>>, <<100, 200, 300, 400, 500, 600, 700, 800>>),
      Arr("uint8", <<1, 2, 3>>, <<0, 128, 255, 10, 20, 30>>),
      Arr("float", <<0, 0, 3>>, <<>>),
      Arr("float", <<2>>, <<0, FDen>>),
      Arr("float", <<1, 1, 2>>, <<0, FDen>>),
      Arr("uint8", <<1, 1, 5>>, <<1, 2, 3, 4, 5>>),
      Arr("float", <<1, 1, 1, 3>>, <<0, 500, FDen>>) }

\* heat maps of the base image's size, of another size, with no element,
\* with one axis and with three axes
HeatMaps ==
    { Arr("float", <<1, 1>>, <<0 - 2 * FDen>>),
      Arr("float", <<1, 2>>, <<FDen \div 4, 0 - FDen>>),
      Arr("float", <<2, 1>>, <<0, 3 * FDen>>),
      Arr("float", <<2, 2>>, <<0 - FDen, 0, FDen \div 2, FDen>>),
      Arr("float", <<0, 2>>, <<>>),
      Arr("float", <<2>>, <<0, FDen>>),
      Arr("float", <<1, 2, 1>>, <<0, FDen>>) }

\* arrays handed to the normalisations: mixed signs, constant, all negative,
\* a single element, large values, no element
NormInputs ==
    { Arr("float", <<1, 2>>, <<0 - 5 * FDen, 3 * FDen>>),
      Arr("float", <<2, 2>>, <<2 * FDen, 0 - 3 * FDen, 0, 7 * FDen>>),
      Arr("float", <<1, 2>>, <<FDen \div 2, FDen \div 2>>),
      Arr("float", <<1, 3>>, <<0 - 3 * FDen, 0 - FDen, 0 - 2>>),
      Arr("float", <<1, 1>>, <<0 - 4 * FDen>>),
      Arr("float", <<1, 1>>, <<0>>),
      Arr("float", <<2, 2>>, <<0, 0, 0, 0>>),
      Arr("float", <<1, 2, 3>>, <<0, 0, 0, 0, 0, 0>>),
      Arr("uint8", <<2, 1>>, <<0, 0>>),
      Arr("float", <<2, 2>>, <<5 * FDen, 0 - 5 * FDen, 0, 0>>),
      Arr("uint8", <<1, 2>>, <<0, 255>>),
      Arr("float", <<0, 2>>, <<>>) }

\* clip percentiles
Percentiles == {0, 50, 99, 100}

\* overlay configurations handed to the render helpers
RenderConfigs ==
    { DefaultOverlayConfig, OverlayCfg(FDen, 0, 50), OverlayCfg(FDen \div 2, FDen \div 2, 100) }

NoArgs == [image |-> NoArr, heat |-> NoArr, cfg |-> DefaultOverlayConfig]

\* no helper has been called
HelperInit ==
    /\ hp_fn = "none"
    /\ hp_args = NoArgs
    /\ hp_out = NoOutcome

\* ensure_rgb is called
HelperEnsureRgb ==
    /\ hp_fn = "none"
    /\ \E image \in ShapeImages :
          /\ hp_fn' = "ensure_rgb"
          /\ hp_args' = [NoArgs EXCEPT !.image = image]
          /\ hp_out' = ensure_rgb(image)
    /\ UNCHANGED <<shapVars, reqVars, exVars, mmVars, ocVars, rsVars, thVars, hkVars, ecVars, lpVars>>

\* render_signed_overlay is called
HelperRenderSigned ==
    /\ hp_fn = "none"
    /\ \E image \in BaseImages, heat \in HeatMaps, cfg \in RenderConfigs :
          /\ hp_fn' = "render_signed_overlay"
          /\ hp_args' = [image |-> image, heat |-> heat, cfg |-> cfg]
          /\ hp_out' = render_signed_overlay(image, heat, cfg)
    /\ UNCHANGED <<shapVars, reqVars, exVars, mmVars, ocVars, rsVars, thVars, hkVars, ecVars, lpVars>>

\* render_unsigned_overlay is called
HelperRenderUnsigned ==
    /\ hp_fn = "none"
    /\ \E image \in BaseImages, heat \in HeatMaps, cfg \in RenderConfigs :
          /\ hp_fn' = "render_unsigned_overlay"
          /\ hp_args' = [image |-> image, heat |-> heat, cfg |-> cfg]
          /\ hp_out' = render_unsigned_overlay(image, heat, cfg)
    /\ UNCHANGED <<shapVars, reqVars, exVars, mmVars, ocVars, rsVars, thVars, hkVars, ecVars, lpVars>>

\* render_signed_overlay_rgb01 is called
HelperRenderSignedRgb01 ==
    /\ hp_fn = "none"
    /\ \E image \in BaseImages, heat \in HeatMaps, cfg \in RenderConfigs :
          /\ hp_fn' = "render_signed_overlay_rgb01"
          /\ hp_args' = [image |-> image, heat |-> heat, cfg |-> cfg]
          /\ hp_out' = render_signed_overlay_rgb01(image, heat, cfg)
    /\ UNCHANGED <<shapVars, reqVars, exVars, mmVars, ocVars, rsVars, thVars, hkVars, ecVars, lpVars>>

\* normalize_01 is called
HelperNormalize01 ==
    /\ hp_fn = "none"
    /\ \E arr \in NormInputs :
          /\ hp_fn' = "normalize_01"
          /\ hp_args' = [NoArgs EXCEPT !.heat = arr]
          /\ hp_out' = Ret(normalize_01(arr))
    /\ UNCHANGED <<shapVars, reqVars, exVars, mmVars, ocVars, rsVars, thVars, hkVars, ecVars, lpVars>>

\* clip_and_normalize_signed is called
HelperClipAndNormalizeSigned ==
    /\ hp_fn = "none"
    /\ \E heat \in NormInputs, pct \in Percentiles :
          /\ hp_fn' = "clip_and_normalize_signed"
          /\ hp_args' = [NoArgs EXCEPT !.heat = heat, !.cfg.clip_percentile = pct]
          /\ hp_out' = Ret(clip_and_normalize_signed(heat, pct))
    /\ UNCHANGED <<shapVars, reqVars, exVars, mmVars, ocVars, rsVars, thVars, hkVars, ecVars, lpVars>>

\* lung_clip_and_normalize_signed is called
HelperLungClipAndNormalizeSigned ==
    /\ hp_fn = "none"
    /\ \E heat \in NormInputs, pct \in Percentiles :
          /\ hp_fn' = "lung_clip_and_normalize_signed"
          /\ hp_args' = [NoArgs EXCEPT !.heat = heat, !.cfg.clip_percentile = pct]
          /\ hp_out' = Ret(lung_clip_and_normalize_signed(heat, pct))
    /\ UNCHANGED <<shapVars, reqVars, exVars, mmVars, ocVars, rsVars, thVars, hkVars, ecVars, lpVars>>

\* an array of the given shape, every element v
Filled(shape, v) == Arr("float", shape, [i \in 1..ShapeSize(shape) |-> v])

\* base images handed to the blend helpers
BlendBases ==
    { Filled(<<2, 2, 3>>, FDen \div 4), Filled(<<1, 1, 3>>, FDen \div 4),
      Filled(<<2, 2, 4>>, FDen \div 4), Filled(<<2, 2>>, FDen \div 4) }

\* overlays handed to the blend helpers
BlendOverlays ==
    { Filled(<<2, 2, 4>>, FDen \div 2), Filled(<<1, 1, 4>>, FDen \div 2),
      Filled(<<1, 2, 4>>, FDen \div 2), Filled(<<3, 2, 4>>, FDen \div 2),
      Filled(<<2, 2, 3>>, FDen \div 2), Filled(<<2, 2>>, FDen \div 2) }

\* XaiBase._to_uint8 (audio): an array that is not uint8 is scaled by 255 when
\* its maximum is at most 1, clipped to [0, 255] and cast, which truncates
_to_uint8(image) ==
    LET scale(x, mx) ==
            Ret(Arr("uint8", image.shape,
                    [i \in 1..Len(x) |-> FixToU8(IF mx <= FDen THEN x[i] * 255 ELSE x[i])]))
    IN  IF image.dtype = "uint8" THEN Ret(image)
        ELSE IF Len(image.data) = 0
        THEN Raise("ValueError", "zero-size array to reduction operation maximum")
        ELSE scale(image.data, SeqMax(image.data))

\* XaiHelpers.to_uint8_rgb (lung): whatever the dtype, the values are clipped
\* to [0, 1], scaled by 255 and cast, which truncates
to_uint8_rgb(img01_rgb) ==
    LET conv(x) == Ret(Arr("uint8", img01_rgb.shape, [i \in 1..Len(x) |-> Float01ToU8(x[i])]))
    IN  IF Len(img01_rgb.shape) # 3 \/ img01_rgb.shape[3] # 3
        THEN Raise("ValueError", "Expected RGB [H,W,3]")
        ELSE conv(AsFix(img01_rgb))

\* images handed to the conversions to 8-bit
Uint8Inputs ==
    { Arr("float", <<1, 1, 3>>, <<FDen - 1, FDen \div 2, 0>>),
      Arr("float", <<1, 1, 3>>, <<FDen, FDen \div 4, 2>>),
      Arr("float", <<1, 1, 3>>, <<200 * FDen, 300 * FDen, 0 - FDen>>),
      Arr("uint8", <<1, 1, 3>>, <<200, 1, 0>>),
      Arr("uint8", <<1, 2, 3>>, <<0, 128, 255, 10, 20, 30>>),
      Arr("float", <<1, 2>>, <<FDen - 1, 0>>),
      Arr("float", <<0, 2, 3>>, <<>>) }

\* ensure_rgb_uint8 is called
HelperEnsureRgbUint8 ==
    /\ hp_fn = "none"
    /\ \E image \in Uint8Inputs :
          /\ hp_fn' = "ensure_rgb_uint8"
          /\ hp_args' = [NoArgs EXCEPT !.image = image]
          /\ hp_out' = ensure_rgb_uint8(image)
    /\ UNCHANGED <<shapVars, reqVars, exVars, mmVars, ocVars, rsVars, thVars, hkVars, ecVars, lpVars>>

\* XaiBase._to_uint8 is called
HelperToUint8 ==
    /\ hp_fn = "none"
    /\ \E image \in Uint8Inputs :
          /\ hp_fn' = "_to_uint8"
          /\ hp_args' = [NoArgs EXCEPT !.image = image]
          /\ hp_out' = _to_uint8(image)
    /\ UNCHANGED <<shapVars, reqVars, exVars, mmVars, ocVars, rsVars, thVars, hkVars, ecVars, lpVars>>

\* to_uint8_rgb is called
HelperToUint8Rgb ==
    /\ hp_fn = "none"
    /\ \E image \in Uint8Inputs :
          /\ hp_fn' = "to_uint8_rgb"
          /\ hp_args' = [NoArgs EXCEPT !.image = image]
          /\ hp_out' = to_uint8_rgb(image)
    /\ UNCHANGED <<shapVars, reqVars, exVars, mmVars, ocVars, rsVars, thVars, hkVars, ecVars, lpVars>>

\* alpha_blend is called
HelperAlphaBlend ==
    /\ hp_fn = "none"
    /\ \E base \in BlendBases, overlay \in BlendOverlays :
          /\ hp_fn' = "alpha_blend"
          /\ hp_args' = [NoArgs EXCEPT !.image = base, !.heat = overlay]
          /\ hp_out' = alpha_blend(base, overlay)
    /\ UNCHANGED <<shapVars, reqVars, exVars, mmVars, ocVars, rsVars, thVars, hkVars, ecVars, lpVars>>

\* alpha_blend_rgb01_rgba01 is called
HelperAlphaBlendRgb01 ==
    /\ hp_fn = "none"
    /\ \E base \in BlendBases, overlay \in BlendOverlays :
          /\ hp_fn' = "alpha_blend_rgb01_rgba01"
          /\ hp_args' = [NoArgs EXCEPT !.image = base, !.heat = overlay]
          /\ hp_out' = alpha_blend_rgb01_rgba01(base, overlay)
    /\ UNCHANGED <<shapVars, reqVars, exVars, mmVars, ocVars, rsVars, thVars, hkVars, ecVars, lpVars>>

\* the caller has taken the outcome; the next call is independent of it
HelperDone ==
    /\ hp_fn # "none"
    /\ hp_fn' = "none"
    /\ hp_args' = NoArgs
    /\ hp_out' = NoOutcome
    /\ UNCHANGED <<shapVars, reqVars, exVars, mmVars, ocVars, rsVars, thVars, hkVars, ecVars, lpVars>>

HelperNext ==
    \/ HelperEnsureRgb
    \/ HelperRenderSigned
    \/ HelperRenderUnsigned
    \/ HelperRenderSignedRgb01
    \/ HelperNormalize01
    \/ HelperClipAndNormalizeSigned
    \/ HelperLungClipAndNormalizeSigned
    \/ HelperAlphaBlend
    \/ HelperAlphaBlendRgb01
    \/ HelperEnsureRgbUint8
    \/ HelperToUint8
    \/ HelperToUint8Rgb
    \/ HelperDone


-----------------------------------------------------------------------------
(* The arrays handed to explain() in memory: what is copied, what is shared,
   what is written in place *)

\* a reference to buffer b: the whole array, or the first three channels of
\* an H x W x 4 array (the view img[:, :, :3])
Whole(b) == [buf |-> b, view |-> "whole"]
RgbView(b) == [buf |-> b, view |-> "rgb"]
NoRef == Whole(0)

\* memory after a step, and the reference the step hands back
Mem(heap, ref) == [heap |-> heap, ref |-> ref, tag |-> "ok"]
MemRaise(heap) == [heap |-> heap, ref |-> NoRef, tag |-> "raise"]

\* a new array is allocated
Alloc(heap, a) == Mem(Append(heap, a), Whole(Len(heap) + 1))

\* the array seen through a reference
Deref(heap, r) ==
    IF r.view = "rgb"
    THEN Arr(heap[r.buf].dtype, <<heap[r.buf].shape[1], heap[r.buf].shape[2], 3>>,
             DropAlpha(heap[r.buf].data))
    ELSE heap[r.buf]

\* the elements of an array in another dtype
Convert(a, dtype) ==
    IF a.dtype = dtype THEN a
    ELSE IF dtype = "float" THEN Arr("float", a.shape, AsFix(a))
    ELSE Arr(dtype, a.shape, [i \in 1..Len(a.data) |-> FixToU8(a.data[i])])

\* ndarray.astype that hands back the array itself whenever the dtype
\* already matches, whatever the copy argument
astype_shared(heap, r, dtype, copy) ==
    IF Deref(heap, r).dtype = dtype
    THEN Mem(heap, r)
    ELSE Alloc(heap, Convert(Deref(heap, r), dtype))

\* ndarray.astype(dtype, copy=copy): a new array, unless copy is False and
\* the dtype already matches
astype(heap, r, dtype, copy) ==
    IF ~copy /\ Deref(heap, r).dtype = dtype
    THEN Mem(heap, r)
    ELSE Alloc(heap, Convert(Deref(heap, r), dtype))

\* the elements of buffer r.buf that the reference r covers
Covers(r, i) == r.view = "whole" \/ (i - 1) % 4 # 3

\* x *= k: the elements the reference covers are overwritten in place
InPlaceScale(heap, r, k) ==
    Mem([heap EXCEPT ![r.buf] =
            Arr(heap[r.buf].dtype, heap[r.buf].shape,
                [i \in 1..Len(heap[r.buf].data) |->
                    IF Covers(r, i) THEN heap[r.buf].data[i] * k ELSE heap[r.buf].data[i]])],
        r)

\* x[..., c] -= k: the elements the reference covers are overwritten in place
InPlaceShift(heap, r, k) ==
    Mem([heap EXCEPT ![r.buf] =
            Arr(heap[r.buf].dtype, heap[r.buf].shape,
                [i \in 1..Len(heap[r.buf].data) |->
                    IF Covers(r, i) THEN heap[r.buf].data[i] - k ELSE heap[r.buf].data[i]])],
        r)

\* ensure_rgb: np.asarray shares the input; np.stack and np.concatenate
\* allocate; img[:, :, :3] is a view of the input
mem_ensure_rgb(heap, r) ==
    LET place(img, res) ==
            IF Raised(res) THEN MemRaise(heap)
            ELSE IF Len(img.shape) = 3 /\ img.shape[3] = 3 THEN Mem(heap, r)
            ELSE IF Len(img.shape) = 3 /\ img.shape[3] = 4 /\ r.view = "whole"
            THEN Mem(heap, RgbView(r.buf))
            ELSE Alloc(heap, res.val)
        go(img) == place(img, ensure_rgb(img))
    IN  go(Deref(heap, r))

\* as_float01: astype(np.float32, copy=False), then arr / 255.0 and np.clip,
\* which both hand back a new array
mem_as_float01(heap, r) ==
    LET clipped(a) == Alloc(a.heap, as_float01(Deref(a.heap, a.ref)))
    IN  clipped(astype(heap, r, "float", FALSE))

\* ensure_rgb_uint8: a uint8 image is handed back as it is; otherwise
\* img.astype(np.float32), x *= 255.0 in place when max <= 1, and a new uint8
\* array from np.clip(...).astype(np.uint8)
mem_ensure_rgb_uint8(heap, r) ==
    LET out(y) == Alloc(y.heap, Convert(Deref(y.heap, y.ref), "uint8"))
        scale(x, data) ==
            IF Len(data) = 0 THEN MemRaise(x.heap)
            ELSE out(IF SeqMax(data) <= FDen THEN InPlaceScale(x.heap, x.ref, 255) ELSE x)
        conv(x) == scale(x, Deref(x.heap, x.ref).data)
        done(e, dtype) ==
            IF dtype = "uint8" THEN e ELSE conv(astype(e.heap, e.ref, "float", TRUE))
        go(e) == IF e.tag = "raise" THEN e ELSE done(e, Deref(e.heap, e.ref).dtype)
    IN  go(mem_ensure_rgb(heap, r))

\* as_float01(ensure_rgb(image))
mem_float_rgb(heap, r) ==
    LET go(e) == IF e.tag = "raise" THEN e ELSE mem_as_float01(e.heap, e.ref)
    IN  go(mem_ensure_rgb(heap, r))

\* audio XaiGradCAM.explain: ensure_rgb_uint8(base_image); img_to_array is
\* np.asarray(img, dtype=float32); preprocess_input subtracts the channel
\* means in place
mem_audio_gradcam(heap) ==
    LET prep(a) == InPlaceShift(a.heap, a.ref, 100 * FDen)
        go(e) == IF e.tag = "raise" THEN e ELSE prep(astype(e.heap, e.ref, "float", FALSE))
    IN  go(mem_ensure_rgb_uint8(heap, Whole(1)))

\* audio XaiLime.explain: img01 = as_float01(ensure_rgb(base_image));
\* img01.astype(np.float64); render_signed_overlay(base_image=img01, ...)
mem_audio_lime(heap) ==
    LET render(c) == mem_float_rgb(c.heap, Whole(c.ref.buf - 1))
        go(f) == IF f.tag = "raise" THEN f ELSE render(astype(f.heap, f.ref, "float64", TRUE))
    IN  go(mem_float_rgb(heap, Whole(1)))

\* audio XaiShap.explain run through its first `layers` layers: each of the
\* two overlay layers computes as_float01(ensure_rgb(base_image)) for its map
\* and once more in its render helper; the last layer is
\* ensure_rgb_uint8(base_image)
mem_audio_shap(heap, layers) ==
    LET last(h) == mem_ensure_rgb_uint8(h, Whole(1))
        again(f) == IF f.tag = "raise" THEN f ELSE mem_float_rgb(f.heap, Whole(1))
        layer(h) == again(mem_float_rgb(h, Whole(1)))
        third(g) == IF layers < 3 THEN g ELSE last(g.heap)
        second(f) == IF layers < 2 THEN f ELSE third(layer(f.heap))
    IN  second(layer(heap))

\* lung XaiGradCAM.explain: the model reads x; base_image.astype(np.float32),
\* then base_gray / 255.0 and np.clip, which hand back new arrays
mem_lung_gradcam(heap) ==
    LET gray(a) == Alloc(a.heap, Gray01(Deref(a.heap, a.ref)))
    IN  IF heap[1] = NoArr THEN Mem(heap, Whole(2))
        ELSE IF Len(heap[1].shape) # 2 THEN MemRaise(astype(heap, Whole(1), "float", TRUE).heap)
        ELSE gray(astype(heap, Whole(1), "float", TRUE))

\* lung XaiLime.explain: x[0, 0].detach().cpu().numpy() shares the memory of
\* x and .astype(np.float32) copies it; _gray01_to_rgb01 copies base_image
\* with gray.astype(np.float32)
mem_lung_lime(heap) ==
    LET gray(a) == Alloc(a.heap, Gray01(Deref(a.heap, a.ref)))
        base(xc) ==
            IF heap[1] = NoArr THEN xc
            ELSE IF Len(heap[1].shape) # 2 THEN MemRaise(xc.heap)
            ELSE gray(astype(xc.heap, Whole(1), "float", TRUE))
    IN  base(astype(heap, Whole(2), "float", TRUE))

\* model inputs x handed to explain()
XInputs ==
    { Arr("float", <<1, 2>>, <<0, FDen>>),
      Arr("float", <<1, 1>>, <<FDen \div 2>>),
      Arr("float", <<2, 1>>, <<0 - FDen, 2 * FDen>>) }

\* no explain() call has been followed yet
MemInit ==
    /\ mm_fn = "none"
    /\ mm_before = <<NoArr, NoArr>>
    /\ mm_after = <<NoArr, NoArr>>
    /\ mm_tag = "none"

\* how a call ends: with the raise of its array handling, with a raise of a
\* later step (model, library), or with the overlay
EndTag(m, fails) == IF m.tag = "raise" \/ fails THEN "raise" ELSE "return"

MemAudioGradCam ==
    /\ mm_fn = "none"
    /\ \E base \in BaseImages, x \in XInputs, fails \in BOOLEAN :
          \E m \in {mem_audio_gradcam(<<base, x>>)} :
              /\ mm_before' = <<base, x>>
              /\ mm_after' = <<m.heap[1], m.heap[2]>>
              /\ mm_tag' = EndTag(m, fails)
    /\ mm_fn' = "audio_gradcam"
    /\ UNCHANGED <<shapVars, reqVars, exVars, hpVars, ocVars, rsVars, thVars, hkVars, ecVars, lpVars>>

MemAudioLime ==
    /\ mm_fn = "none"
    /\ \E base \in BaseImages, x \in XInputs, fails \in BOOLEAN :
          \E m \in {mem_audio_lime(<<base, x>>)} :
              /\ mm_before' = <<base, x>>
              /\ mm_after' = <<m.heap[1], m.heap[2]>>
              /\ mm_tag' = EndTag(m, fails)
    /\ mm_fn' = "audio_lime"
    /\ UNCHANGED <<shapVars, reqVars, exVars, hpVars, ocVars, rsVars, thVars, hkVars, ecVars, lpVars>>

MemAudioShap ==
    /\ mm_fn = "none"
    /\ \E base \in BaseImages, x \in XInputs, layers \in 1..3 :
          \E m \in {mem_audio_shap(<<base, x>>, layers)} :
              /\ mm_before' = <<base, x>>
              /\ mm_after' = <<m.heap[1], m.heap[2]>>
              /\ mm_tag' = EndTag(m, FALSE)
    /\ mm_fn' = "audio_shap"
    /\ UNCHANGED <<shapVars, reqVars, exVars, hpVars, ocVars, rsVars, thVars, hkVars, ecVars, lpVars>>

MemLungGradCam ==
    /\ mm_fn = "none"
    /\ \E base \in LungBaseImages, x \in XInputs, fails \in BOOLEAN :
          \E m \in {mem_lung_gradcam(<<base, x>>)} :
              /\ mm_before' = <<base, x>>
              /\ mm_after' = <<m.heap[1], m.heap[2]>>
              /\ mm_tag' = EndTag(m, fails)
    /\ mm_fn' = "lung_gradcam"
    /\ UNCHANGED <<shapVars, reqVars, exVars, hpVars, ocVars, rsVars, thVars, hkVars, ecVars, lpVars>>

MemLungLime ==
    /\ mm_fn = "none"
    /\ \E base \in LungBaseImages, x \in XInputs, fails \in BOOLEAN :
          \E m \in {mem_lung_lime(<<base, x>>)} :
              /\ mm_before' = <<base, x>>
              /\ mm_after' = <<m.heap[1], m.heap[2]>>
              /\ mm_tag' = EndTag(m, fails)
    /\ mm_fn' = "lung_lime"
    /\ UNCHANGED <<shapVars, reqVars, exVars, hpVars, ocVars, rsVars, thVars, hkVars, ecVars, lpVars>>

\* the caller has looked at its arrays; the next call is independent
MemDone ==
    /\ mm_fn # "none"
    /\ mm_fn' = "none"
    /\ mm_before' = <<NoArr, NoArr>>
    /\ mm_after' = <<NoArr, NoArr>>
    /\ mm_tag' = "none"
    /\ UNCHANGED <<shapVars, reqVars, exVars, hpVars, ocVars, rsVars, thVars, hkVars, ecVars, lpVars>>

MemNext ==
    \/ MemAudioGradCam
    \/ MemAudioLime
    \/ MemAudioShap
    \/ MemLungGradCam
    \/ MemLungLime
    \/ MemDone


-----------------------------------------------------------------------------
(* OverlayConfig objects *)

\* values a caller passes for alpha_max and alpha_min, and for clip_percentile
AlphaValues == {0 - FDen \div 10, 0, FDen \div 20, (7 * FDen) \div 10, FDen, 2 * FDen}
PercentileValues == {-1, 0, 50, 99, 100, 150}

\* no OverlayConfig object exists
ConfigInit ==
    /\ oc_pc = "none"
    /\ oc_cfg = DefaultOverlayConfig
    /\ oc_err = ""

\* OverlayConfig(): the generated __init__ stores the defaults
ConfigConstructDefault ==
    /\ oc_pc = "none"
    /\ oc_pc' = "made"
    /\ oc_cfg' = DefaultOverlayConfig
    /\ oc_err' = ""
    /\ UNCHANGED <<shapVars, reqVars, exVars, hpVars, mmVars, rsVars, thVars, hkVars, ecVars, lpVars>>

\* OverlayConfig(alpha_max=..., alpha_min=..., clip_percentile=...): the
\* generated __init__ stores its arguments; the class has no __post_init__
ConfigConstruct ==
    /\ oc_pc = "none"
    /\ \E amax \in AlphaValues, amin \in AlphaValues, pct \in PercentileValues :
          oc_cfg' = OverlayCfg(amax, amin, pct)
    /\ oc_pc' = "made"
    /\ oc_err' = ""
    /\ UNCHANGED <<shapVars, reqVars, exVars, hpVars, mmVars, rsVars, thVars, hkVars, ecVars, lpVars>>

\* cfg.<field> = value on a frozen dataclass: __setattr__ raises
\* FrozenInstanceError and stores nothing
ConfigSetField ==
    /\ oc_pc = "made"
    /\ \E field \in {"alpha_max", "alpha_min", "clip_percentile"}, v \in AlphaValues :
          /\ oc_err' = "FrozenInstanceError"
          /\ oc_cfg' = oc_cfg
    /\ UNCHANGED oc_pc
    /\ UNCHANGED <<shapVars, reqVars, exVars, hpVars, mmVars, rsVars, thVars, hkVars, ecVars, lpVars>>

\* the object is dropped at the end of the request
ConfigDiscard ==
    /\ oc_pc = "made"
    /\ oc_pc' = "none"
    /\ oc_cfg' = DefaultOverlayConfig
    /\ oc_err' = ""
    /\ UNCHANGED <<shapVars, reqVars, exVars, hpVars, mmVars, rsVars, thVars, hkVars, ecVars, lpVars>>

ConfigNext ==
    \/ ConfigConstructDefault
    \/ ConfigConstruct
    \/ ConfigSetField
    \/ ConfigDiscard


-----------------------------------------------------------------------------
(* gradcam_heatmap of lung_explainability, on the model the explainers share *)

\* target labels and models gradcam_heatmap is called with
HeatmapInputs == [target_label : TargetLabels, has_pathologies : BOOLEAN]

\* gradcam_heatmap is called
HeatmapStart ==
    /\ ex_pc = "idle"
    /\ ex_kind = "lung_heatmap"
    /\ ex_calls < MaxCalls
    /\ \E inp \in HeatmapInputs :
          ex_in' = [class_index |-> 0, base_image |-> NoArr,
                    target_label |-> inp.target_label, return_heatmap |-> TRUE,
                    has_pathologies |-> inp.has_pathologies]
    /\ ex_pc' = "hm_validate"
    /\ ex_out' = NoOutcome
    /\ ex_pending' = NoOutcome
    /\ ex_class' = NoClass
    /\ ex_preds' = <<>>
    /\ ex_hooked' = 0
    /\ ex_passes' = 0
    /\ ex_calls' = ex_calls + 1
    /\ UNCHANGED <<ex_kind, ex_hooks>>
    /\ UNCHANGED <<shapVars, reqVars, hpVars, mmVars, ocVars, rsVars, thVars, hkVars, ecVars, lpVars>>

\* gradcam_heatmap, up to _find_last_conv: the checks made before any hook
\* is registered
heatmap_checks(has_pathologies, target_label, has_conv) ==
    IF ~has_pathologies
    THEN Raise("ValueError", "Model must have .pathologies (TorchXRayVision DenseNet).")
    ELSE IF target_label \notin Pathologies
    THEN Raise("ValueError", "Unknown label")
    ELSE IF ~has_conv
    THEN Raise("RuntimeError", "Grad-CAM requires Conv2d layers (none found).")
    ELSE Ret(NoArr)

HeatmapValidate ==
    /\ ex_pc = "hm_validate"
    /\ \E has_conv \in BOOLEAN :
          \E r \in {heatmap_checks(ex_in.has_pathologies, ex_in.target_label, has_conv)} :
             IF Raised(r)
             THEN /\ ex_out' = r
                  /\ ex_pc' = "idle"
             ELSE /\ ex_out' = ex_out
                  /\ ex_pc' = "hm_hooks"
    /\ UNCHANGED <<ex_kind, ex_in, ex_pending, ex_class, ex_preds, ex_hooks, ex_hooked,
                   ex_passes, ex_calls>>
    /\ UNCHANGED <<shapVars, reqVars, hpVars, mmVars, ocVars, rsVars, thVars, hkVars, ecVars, lpVars>>

\* gradcam_heatmap: h1 = register_forward_hook, h2 = register_full_backward_hook
HeatmapRegisterHooks ==
    /\ ex_pc = "hm_hooks"
    /\ ex_hooks' = ex_hooks + 2
    /\ ex_hooked' = ex_hooked + 2
    /\ ex_pc' = "hm_passes"
    /\ UNCHANGED <<ex_kind, ex_in, ex_out, ex_pending, ex_class, ex_preds, ex_passes, ex_calls>>
    /\ UNCHANGED <<shapVars, reqVars, hpVars, mmVars, ocVars, rsVars, thVars, hkVars, ecVars, lpVars>>

\* gradcam_heatmap after h1.remove() and h2.remove(): the map is computed
\* from what the hooks captured
heatmap_cam(ext) ==
    IF ext.kind = "no_capture"
    THEN Raise("AttributeError", "'NoneType' object has no attribute 'mean'")
    ELSE Ret(normalize_01(Relu(MapOf(ext.pattern, XGray.shape[1], XGray.shape[2]))))

\* gradcam_heatmap: the forward pass, the backward pass, then the two
\* remove() calls and the computation of the map; the passes are not inside
\* a try block, an exception of theirs leaves the function at once
HeatmapPasses ==
    /\ ex_pc = "hm_passes"
    /\ \E ext \in LungPassBehaviours :
          IF ext.kind \in {"forward_raises", "backward_raises"}
          THEN /\ ex_out' = _compute_gradcam(ext)
               /\ ex_hooks' = ex_hooks
               /\ ex_passes' = ex_passes + (IF ext.kind = "forward_raises" THEN 1 ELSE 2)
          ELSE /\ ex_out' = heatmap_cam(ext)
               /\ ex_hooks' = ex_hooks - 2
               /\ ex_passes' = ex_passes + 2
    /\ ex_pc' = "idle"
    /\ UNCHANGED <<ex_kind, ex_in, ex_pending, ex_class, ex_preds, ex_hooked, ex_calls>>
    /\ UNCHANGED <<shapVars, reqVars, hpVars, mmVars, ocVars, rsVars, thVars, hkVars, ecVars, lpVars>>

\* the Grad-CAM computations on the lung classifier: XaiGradCAM.explain and
\* gradcam_heatmap
LungGradCamNext ==
    \/ ExplainStart
    \/ LungValidate
    \/ LungFindConv
    \/ LungRegisterHooks
    \/ LungPasses
    \/ LungRemoveHooks
    \/ LungOverlay
    \/ HeatmapStart
    \/ HeatmapValidate
    \/ HeatmapRegisterHooks
    \/ HeatmapPasses


-----------------------------------------------------------------------------
(* XaiShap._get_or_create_explainer, statement by statement, called by threads *)

\* threads that call the method on one instance, and the calls each makes
NumThreads == 2
MaxThreadCalls == 2
Threads == 1..NumThreads

\* the input shapes (H, W, C) the calls request
InputShapes == { <<1, 2, 3>>, <<2, 1, 3>> }

\* the two cache fields and the number of explainers built so far
CacheFields(explainer, shape, builds) ==
    [explainer |-> explainer, shape |-> shape, builds |-> builds]

\* a thread outside the method
IdleThread ==
    [pc |-> "idle", req |-> NoShape, seen |-> NoExplainer, local |-> NoExplainer,
     ret |-> NoExplainer, out |-> "none",
     before |-> CacheFields(NoExplainer, NoShape, 0)]

ThInit ==
    /\ th = [t \in Threads |-> IdleThread]
    /\ th_calls = [t \in Threads |-> 0]

\* a thread enters the method with an input shape
ThCall(t) ==
    /\ th[t].pc = "idle"
    /\ th_calls[t] < MaxThreadCalls
    /\ \E input_shape \in InputShapes :
          th' = [th EXCEPT ![t] = [IdleThread EXCEPT
                    !.pc = "read_explainer", !.req = input_shape,
                    !.before = CacheFields(xs_explainer, xs_shape, xs_builds)]]
    /\ th_calls' = [th_calls EXCEPT ![t] = @ + 1]
    /\ UNCHANGED shapVars
    /\ UNCHANGED <<reqVars, exVars, hpVars, mmVars, ocVars, rsVars, hkVars, ecVars, lpVars>>

\* a thread enters the method while no other thread is inside it
ThCallAlone(t) ==
    /\ \A u \in Threads : th[u].pc = "idle"
    /\ th_calls[t] < MaxThreadCalls
    /\ \E input_shape \in InputShapes :
          th' = [th EXCEPT ![t] = [IdleThread EXCEPT
                    !.pc = "read_explainer", !.req = input_shape,
                    !.before = CacheFields(xs_explainer, xs_shape, xs_builds)]]
    /\ th_calls' = [th_calls EXCEPT ![t] = @ + 1]
    /\ UNCHANGED shapVars
    /\ UNCHANGED <<reqVars, exVars, hpVars, mmVars, ocVars, rsVars, hkVars, ecVars, lpVars>>

\* line 128, left operand: self._explainer is read
ThReadExplainer(t) ==
    /\ th[t].pc = "read_explainer"
    /\ th' = [th EXCEPT ![t].seen = xs_explainer, ![t].pc = "test"]
    /\ UNCHANGED th_calls
    /\ UNCHANGED shapVars
    /\ UNCHANGED <<reqVars, exVars, hpVars, mmVars, ocVars, rsVars, hkVars, ecVars, lpVars>>

\* line 128, right operand and the test: self._explainer_input_shape is read
\* and compared with the requested shape
ThTest(t) ==
    /\ th[t].pc = "test"
    /\ th' = [th EXCEPT ![t].pc = IF CacheHit(th[t].seen, xs_shape, th[t].req)
                                  THEN "return_cached" ELSE "build"]
    /\ UNCHANGED th_calls
    /\ UNCHANGED shapVars
    /\ UNCHANGED <<reqVars, exVars, hpVars, mmVars, ocVars, rsVars, hkVars, ecVars, lpVars>>

\* line 129: return self._explainer
ThReturnCached(t) ==
    /\ th[t].pc = "return_cached"
    /\ th' = [th EXCEPT ![t].ret = xs_explainer, ![t].out = "return", ![t].pc = "idle"]
    /\ UNCHANGED th_calls
    /\ UNCHANGED shapVars
    /\ UNCHANGED <<reqVars, exVars, hpVars, mmVars, ocVars, rsVars, hkVars, ecVars, lpVars>>

\* lines 135 and 136: the masker and the explainer are built for the
\* requested shape, or the shap library raises
ThBuild(t) ==
    /\ th[t].pc = "build"
    /\ \E built \in BOOLEAN :
          IF built
          THEN /\ th' = [th EXCEPT ![t].local = [builtFor |-> th[t].req, id |-> xs_builds + 1],
                                   ![t].pc = "assign_explainer"]
               /\ xs_builds' = xs_builds + 1
          ELSE /\ th' = [th EXCEPT ![t].out = "raise", ![t].pc = "idle"]
               /\ xs_builds' = xs_builds
    /\ UNCHANGED th_calls
    /\ UNCHANGED <<xs_explainer, xs_shape, xs_pc, xs_in, xs_out, xs_log, xs_calls, xs_ci>>
    /\ UNCHANGED <<reqVars, exVars, hpVars, mmVars, ocVars, rsVars, hkVars, ecVars, lpVars>>

\* line 138: self._explainer = explainer
ThAssignExplainer(t) ==
    /\ th[t].pc = "assign_explainer"
    /\ xs_explainer' = th[t].local
    /\ th' = [th EXCEPT ![t].pc = "assign_shape"]
    /\ UNCHANGED th_calls
    /\ UNCHANGED <<xs_shape, xs_builds, xs_pc, xs_in, xs_out, xs_log, xs_calls, xs_ci>>
    /\ UNCHANGED <<reqVars, exVars, hpVars, mmVars, ocVars, rsVars, hkVars, ecVars, lpVars>>

\* line 139: self._explainer_input_shape = input_shape
ThAssignShape(t) ==
    /\ th[t].pc = "assign_shape"
    /\ xs_shape' = th[t].req
    /\ th' = [th EXCEPT ![t].pc = "return_built"]
    /\ UNCHANGED th_calls
    /\ UNCHANGED <<xs_explainer, xs_builds, xs_pc, xs_in, xs_out, xs_log, xs_calls, xs_ci>>
    /\ UNCHANGED <<reqVars, exVars, hpVars, mmVars, ocVars, rsVars, hkVars, ecVars, lpVars>>

\* line 140: return explainer
ThReturnBuilt(t) ==
    /\ th[t].pc = "return_built"
    /\ th' = [th EXCEPT ![t].ret = th[t].local, ![t].out = "return", ![t].pc = "idle"]
    /\ UNCHANGED th_calls
    /\ UNCHANGED shapVars
    /\ UNCHANGED <<reqVars, exVars, hpVars, mmVars, ocVars, rsVars, hkVars, ecVars, lpVars>>

\* calls made one after the other
SequentialNext ==
    \/ \E t \in Threads : ThCallAlone(t)
    \/ \E t \in Threads : ThReadExplainer(t)
    \/ \E t \in Threads : ThTest(t)
    \/ \E t \in Threads : ThReturnCached(t)
    \/ \E t \in Threads : ThBuild(t)
    \/ \E t \in Threads : ThAssignExplainer(t)
    \/ \E t \in Threads : ThAssignShape(t)
    \/ \E t \in Threads : ThReturnBuilt(t)

\* calls of several threads, interleaved statement by statement
ConcurrentNext ==
    \/ \E t \in Threads : ThCall(t)
    \/ \E t \in Threads : ThReadExplainer(t)
    \/ \E t \in Threads : ThTest(t)
    \/ \E t \in Threads : ThReturnCached(t)
    \/ \E t \in Threads : ThBuild(t)
    \/ \E t \in Threads : ThAssignExplainer(t)
    \/ \E t \in Threads : ThAssignShape(t)
    \/ \E t \in Threads : ThReturnBuilt(t)


-----------------------------------------------------------------------------
(* XaiGradCAM._compute_gradcam called by threads on the shared lung classifier *)

\* a forward / backward pass, and a pair of hooks, is named by the thread and
\* the number of the call that made it
NoPass == <<0, 0>>

\* a thread outside _compute_gradcam
IdleCall ==
    [pc |-> "idle", activations |-> NoPass, gradients |-> NoPass, graph |-> {},
     used |-> [activations |-> NoPass, gradients |-> NoPass], out |-> "none"]

HooksInit ==
    /\ hk = [t \in Threads |-> IdleCall]
    /\ hk_fwd = {}
    /\ hk_bwd = {}
    /\ hk_calls = [t \in Threads |-> 0]

\* the call a thread is making
CallOf(t) == <<t, hk_calls[t]>>

\* detect() of a request builds XaiGradCAM(model=self._model.model) and
\* explain() reaches _compute_gradcam: activations = None, gradients = None
HkCall(t) ==
    /\ hk[t].pc = "idle"
    /\ hk_calls[t] < MaxThreadCalls
    /\ hk_calls' = [hk_calls EXCEPT ![t] = @ + 1]
    /\ hk' = [hk EXCEPT ![t] = [IdleCall EXCEPT !.pc = "register_forward"]]
    /\ UNCHANGED <<hk_fwd, hk_bwd>>
    /\ UNCHANGED <<shapVars, reqVars, exVars, hpVars, mmVars, ocVars, rsVars, thVars, ecVars, lpVars>>

\* line 155: h1 = target_layer.register_forward_hook(fwd_hook)
HkRegisterForward(t) ==
    /\ hk[t].pc = "register_forward"
    /\ hk_fwd' = hk_fwd \cup {CallOf(t)}
    /\ hk' = [hk EXCEPT ![t].pc = "register_backward"]
    /\ UNCHANGED <<hk_bwd, hk_calls>>
    /\ UNCHANGED <<shapVars, reqVars, exVars, hpVars, mmVars, ocVars, rsVars, thVars, ecVars, lpVars>>

\* line 156: h2 = target_layer.register_full_backward_hook(bwd_hook)
HkRegisterBackward(t) ==
    /\ hk[t].pc = "register_backward"
    /\ hk_bwd' = hk_bwd \cup {CallOf(t)}
    /\ hk' = [hk EXCEPT ![t].pc = "forward"]
    /\ UNCHANGED <<hk_fwd, hk_calls>>
    /\ UNCHANGED <<shapVars, reqVars, exVars, hpVars, mmVars, ocVars, rsVars, thVars, ecVars, lpVars>>

\* the calls whose hook, registered on the layer, belongs to a call that is
\* still running: the hook assigns to that call's local variable
Running(hooks) == { c \in hooks : hk[c[1]].pc # "idle" /\ hk_calls[c[1]] = c[2] }

\* line 160: out = self._model(x); the target layer calls every forward hook
\* registered on it, and ties the backward hooks registered on it to the
\* graph of this pass
HkForward(t) ==
    /\ hk[t].pc = "forward"
    /\ \E raises \in BOOLEAN :
          IF raises
          THEN hk' = [hk EXCEPT ![t].out = "raise", ![t].pc = "remove"]
          ELSE hk' = [u \in Threads |->
                        [hk[u] EXCEPT
                            !.activations = IF CallOf(u) \in Running(hk_fwd)
                                            THEN CallOf(t) ELSE @,
                            !.graph = IF u = t THEN hk_bwd ELSE @,
                            !.pc = IF u = t THEN "backward" ELSE @]]
    /\ UNCHANGED <<hk_fwd, hk_bwd, hk_calls>>
    /\ UNCHANGED <<shapVars, reqVars, exVars, hpVars, mmVars, ocVars, rsVars, thVars, ecVars, lpVars>>

\* lines 163 to 165: zero_grad and score.backward(); the backward hooks tied
\* to the graph of this pass are called
HkBackward(t) ==
    /\ hk[t].pc = "backward"
    /\ \E raises \in BOOLEAN :
          IF raises
          THEN hk' = [hk EXCEPT ![t].out = "raise", ![t].pc = "remove"]
          ELSE hk' = [u \in Threads |->
                        [hk[u] EXCEPT
                            !.gradients = IF CallOf(u) \in Running(hk[t].graph)
                                          THEN CallOf(t) ELSE @,
                            !.pc = IF u = t THEN "compute" ELSE @]]
    /\ UNCHANGED <<hk_fwd, hk_bwd, hk_calls>>
    /\ UNCHANGED <<shapVars, reqVars, exVars, hpVars, mmVars, ocVars, rsVars, thVars, ecVars, lpVars>>

\* lines 168 to 186: the capture check, then the map is computed from the
\* call's activations and gradients
HkCompute(t) ==
    /\ hk[t].pc = "compute"
    /\ IF hk[t].activations = NoPass \/ hk[t].gradients = NoPass
       THEN hk' = [hk EXCEPT ![t].out = "raise", ![t].pc = "remove"]
       ELSE hk' = [hk EXCEPT ![t].used = [activations |-> hk[t].activations,
                                          gradients |-> hk[t].gradients],
                             ![t].out = "return", ![t].pc = "remove"]
    /\ UNCHANGED <<hk_fwd, hk_bwd, hk_calls>>
    /\ UNCHANGED <<shapVars, reqVars, exVars, hpVars, mmVars, ocVars, rsVars, thVars, ecVars, lpVars>>

\* lines 188 to 192, finally: h1.remove(); h2.remove()
HkRemove(t) ==
    /\ hk[t].pc = "remove"
    /\ hk_fwd' = hk_fwd \ {CallOf(t)}
    /\ hk_bwd' = hk_bwd \ {CallOf(t)}
    /\ hk' = [hk EXCEPT ![t].pc = "idle"]
    /\ UNCHANGED hk_calls
    /\ UNCHANGED <<shapVars, reqVars, exVars, hpVars, mmVars, ocVars, rsVars, thVars, ecVars, lpVars>>

\* Grad-CAM computations of several requests, interleaved
HooksNext ==
    \/ \E t \in Threads : HkCall(t)
    \/ \E t \in Threads : HkRegisterForward(t)
    \/ \E t \in Threads : HkRegisterBackward(t)
    \/ \E t \in Threads : HkForward(t)
    \/ \E t \in Threads : HkBackward(t)
    \/ \E t \in Threads : HkCompute(t)
    \/ \E t \in Threads : HkRemove(t)

-----------------------------------------------------------------------------
(* AudioDetector.detect with xai_method = SHAP: one XaiShap instance per call *)

\* an explainer the detector would keep from one request to the next
XaiShapKept(explainer, shape, builds) ==
    [explainer |-> explainer, shape |-> shape, builds |-> builds]

\* XaiShap.__init__: the cache fields of the instance detect() constructs,
\* whatever the instance of the request before held
XaiShapConstructed(explainer, shape, builds) ==
    [explainer |-> NoExplainer, shape |-> NoShape, builds |-> 0]

\* detect(), step 4a: explainer = XaiShap(model=self._model.model)
DetectConstructShap ==
    /\ xs_pc = "idle"
    /\ xs_calls < MaxCalls
    /\ \E inst \in {XaiShapConstructed(xs_explainer, xs_shape, xs_builds)} :
          /\ xs_explainer' = inst.explainer
          /\ xs_shape' = inst.shape
          /\ xs_builds' = inst.builds
    /\ xs_pc' = "constructed"
    /\ UNCHANGED <<xs_in, xs_out, xs_log, xs_calls, xs_ci>>
    /\ UNCHANGED <<reqVars, exVars, hpVars, mmVars, ocVars, rsVars, thVars, hkVars, ecVars, lpVars>>

\* detect(), step 4b: explainer.explain(...) is entered on the new instance
DetectExplainShap ==
    /\ xs_pc = "constructed"
    /\ \E ci \in ClassIndices, base \in BaseImages :
          xs_in' = [class_index |-> ci, base_image |-> base]
    /\ xs_calls' = xs_calls + 1
    /\ xs_pc' = "shap"
    /\ xs_out' = NoOutcome
    /\ xs_log' = <<[layer |-> "explain", event |-> "START"]>>
    /\ xs_ci' = NoClass
    /\ UNCHANGED <<xs_explainer, xs_shape, xs_builds>>
    /\ UNCHANGED <<reqVars, exVars, hpVars, mmVars, ocVars, rsVars, thVars, hkVars, ecVars, lpVars>>

\* detect() calls with the SHAP method, one after the other; explain() returns
\* into detect(), which drops its local `explainer` when it returns
DetectShapNext ==
    \/ DetectConstructShap
    \/ DetectExplainShap
    \/ ShapExplainShap
    \/ ShapExplainGradient
    \/ ShapExplainBaseImage

-----------------------------------------------------------------------------
(* LungDetectorModel.predict and the label LungCancerDetector.detect explains *)

\* LungDetectorModel.target_label and LungCancerDetector.target_label
target_label == "Lung Lesion"

\* thresholds a LungDetectorModel is constructed with
Thresholds == {(3 * FDen) \div 10, FDen \div 2, (7 * FDen) \div 10}

\* scores predict_scores hands back, one per pathology
ScoreMaps ==
    [Pathologies -> {FDen \div 10, FDen \div 2 - 1, FDen \div 2, FDen \div 2 + 1, (9 * FDen) \div 10}]

NoScores == [p \in Pathologies |-> 0]
NoPrediction == [decision |-> "none", threshold |-> 0, score |-> 0]

LungPredictInit ==
    /\ lp_pc = "unbuilt"
    /\ lp_threshold = 0
    /\ lp_scores = NoScores
    /\ lp_prediction = NoPrediction
    /\ lp_label = "none"
    /\ lp_calls = 0

\* a decision that takes a score equal to the threshold as not suspected
predict_above(scores, threshold) ==
    [decision |-> IF scores[target_label] > threshold
                  THEN "Cancer suspected" ELSE "No cancer detected",
     threshold |-> threshold,
     score |-> scores[target_label]]

\* LungDetectorModel.predict, steps 2 to 4
predict(scores, threshold) ==
    [decision |-> IF scores[target_label] >= threshold
                  THEN "Cancer suspected" ELSE "No cancer detected",
     threshold |-> threshold,
     score |-> scores[target_label]]

\* LungDetectorModel.__init__: self._threshold = threshold
LungModelConstruct ==
    /\ lp_pc = "unbuilt"
    /\ \E threshold \in Thresholds : lp_threshold' = threshold
    /\ lp_pc' = "idle"
    /\ UNCHANGED <<lp_scores, lp_prediction, lp_label, lp_calls>>
    /\ UNCHANGED <<shapVars, reqVars, exVars, hpVars, mmVars, ocVars, rsVars, thVars, hkVars, ecVars>>

\* detect(), step 2: self._model.predict(x); predict_scores returns the scores
\* of the forward pass or raises, and the exception leaves detect()
LungDetectPredict ==
    /\ lp_pc = "idle"
    /\ lp_calls < MaxCalls
    /\ lp_calls' = lp_calls + 1
    /\ lp_label' = "none"
    /\ \/ \E scores \in ScoreMaps :
             /\ lp_scores' = scores
             /\ lp_prediction' = predict(scores, lp_threshold)
             /\ lp_pc' = "explain"
       \/ /\ lp_scores' = NoScores
          /\ lp_prediction' = NoPrediction
          /\ lp_pc' = "idle"
    /\ UNCHANGED lp_threshold
    /\ UNCHANGED <<shapVars, reqVars, exVars, hpVars, mmVars, ocVars, rsVars, thVars, hkVars, ecVars>>

\* detect(), step 3: the explainer of the requested method explains
\* self.target_label; a method that is neither Grad-CAM nor LIME raises
LungDetectExplain ==
    /\ lp_pc = "explain"
    /\ \E xai_method \in {"gradcam", "lime", "shap"} :
          lp_label' = IF xai_method \in {"gradcam", "lime"} THEN target_label ELSE "none"
    /\ lp_pc' = "idle"
    /\ UNCHANGED <<lp_threshold, lp_scores, lp_prediction, lp_calls>>
    /\ UNCHANGED <<shapVars, reqVars, exVars, hpVars, mmVars, ocVars, rsVars, thVars, hkVars, ecVars>>

LungDetectNext ==
    \/ LungModelConstruct
    \/ LungDetectPredict
    \/ LungDetectExplain

-----------------------------------------------------------------------------
(* Specifications *)

\* a fresh XaiShap instance and a service that has received no request
Init ==
    /\ ShapInit
    /\ ReqInit
    /\ ExInit({"audio_shap"})
    /\ HelperInit
    /\ MemInit
    /\ ConfigInit
    /\ ThInit
    /\ HooksInit
    /\ LungPredictInit

\* a fresh explainer of any class
InitExplainer ==
    /\ ShapInit
    /\ ReqInit
    /\ ExInit(ExplainerKinds \cup {"audio_shap"})
    /\ HelperInit
    /\ MemInit
    /\ ConfigInit
    /\ ThInit
    /\ HooksInit
    /\ LungPredictInit

\* an explain() call on an explainer of any class
ExplainerNext ==
    \/ ShapNext
    \/ ExplainNext

\* explain() calls on one XaiShap instance
SpecShap == Init /\ [][ShapNext]_vars

\* requests served one after the other by the two services
SpecRequest == Init /\ [][ReqNext]_vars

\* explain() calls on one explainer of any class of the two services
SpecExplain == InitExplainer /\ [][ExplainerNext]_vars

\* Grad-CAM computations on the lung classifier
InitLungGradCam ==
    /\ ShapInit
    /\ ReqInit
    /\ ExInit({"lung_gradcam", "lung_heatmap"})
    /\ HelperInit
    /\ MemInit
    /\ ConfigInit
    /\ ThInit
    /\ HooksInit
    /\ LungPredictInit

SpecLungGradCam == InitLungGradCam /\ [][LungGradCamNext]_vars

\* calls of the helper functions, each with arguments of its own
SpecHelpers == Init /\ [][HelperNext]_vars

\* explain() calls of every explainer, followed through the arrays in memory
SpecMemory == Init /\ [][MemNext]_vars

\* the life of one OverlayConfig object
SpecConfig == Init /\ [][ConfigNext]_vars

\* _get_or_create_explainer called again and again, one call at a time
SpecCacheSequential == Init /\ [][SequentialNext]_vars

\* _get_or_create_explainer called by several threads at once
SpecCacheConcurrent == Init /\ [][ConcurrentNext]_vars

\* Grad-CAM computations of several requests on the shared lung classifier
SpecHooksConcurrent == Init /\ [][HooksNext]_vars

\* detect() calls of the audio service with the SHAP method
SpecDetectShap == Init /\ [][DetectShapNext]_vars

\* detect() calls of the lung service, up to the label they explain
SpecLungDetect == Init /\ [][LungDetectNext]_vars

-----------------------------------------------------------------------------
(* Properties of XaiShap.explain *)

\* an explain() call has run to its end
ShapCallEnded == xs_pc = "idle" /\ xs_calls > 0

\* the layer logged its ERROR line during the last call
ShapLayerFailed(layer) ==
    \E i \in 1..Len(xs_log) : xs_log[i] = [layer |-> layer, event |-> "ERROR"]

\* C1 as stated: explain() never raises, whatever class_index and base_image,
\* and when the SHAP layer and the gradient layer both raise it returns
\* ensure_rgb_uint8(base_image).
C1_NeverRaisesAnyBase ==
    ShapCallEnded =>
        /\ xs_out.tag = "return"
        /\ (ShapLayerFailed("shap") /\ ShapLayerFailed("gradient"))
              => xs_out = ensure_rgb_uint8(xs_in.base_image)

\* C1, restricted: for every class_index and every base_image that
\* ensure_rgb_uint8 accepts, explain() returns normally, and when the SHAP
\* layer and the gradient layer both raise it returns
\* ensure_rgb_uint8(base_image).
C1_NeverRaisesValidBase ==
    (ShapCallEnded /\ ~Raised(ensure_rgb_uint8(xs_in.base_image))) =>
        /\ xs_out.tag = "return"
        /\ (ShapLayerFailed("shap") /\ ShapLayerFailed("gradient"))
              => xs_out = ensure_rgb_uint8(xs_in.base_image)

\* both layers raised on a float base image and the call returned its
\* uint8 conversion
C1_BothLayersFailedReturned ==
    /\ ShapCallEnded
    /\ ShapLayerFailed("shap") /\ ShapLayerFailed("gradient")
    /\ xs_in.base_image.dtype = "float"
    /\ xs_out.tag = "return"
    /\ xs_out.val.dtype = "uint8"

-----------------------------------------------------------------------------
(* Properties of the detection request path *)

Stages == <<"RECEIVED", "PREPROCESSED", "PREDICTED", "EXPLAINED", "ASSEMBLED">>

Populated(v) == v \notin {"none", "unset"}

\* detect() has returned or raised
DetectEnded == rq_pc \in {"encode", "finally", "respond", "done"} /\ rq_stages # <<>>

\* the request has been answered
ReqAnswered == rq_pc = "done"

\* C2: a request passes through RECEIVED, PREPROCESSED, PREDICTED, EXPLAINED,
\* ASSEMBLED in this order, each operation run at most once; detect() ends in
\* ASSEMBLED (a DetectorResult is returned) or in FAILED (an exception leaves
\* it); nothing runs after an operation has raised, and explain never starts
\* before predict has returned.
C2_StagesInOrder ==
    /\ \E n \in 0..Len(Stages) :
          \/ rq_stages = SubSeq(Stages, 1, n)
          \/ n \in 1..(Len(Stages) - 1) /\ rq_stages = Append(SubSeq(Stages, 1, n), "FAILED")
    /\ \A i, j \in 1..Len(rq_ops) : i < j => rq_ops[i].op # rq_ops[j].op /\ rq_ops[i].ok
    /\ \A j \in 1..Len(rq_ops) :
          rq_ops[j].op = "explain" =>
              \E i \in 1..(j - 1) : rq_ops[i] = [op |-> "predict", ok |-> TRUE]
    /\ DetectEnded =>
          \/ rq_stages[Len(rq_stages)] = "ASSEMBLED" /\ rq_result # NoResult
          \/ rq_stages[Len(rq_stages)] = "FAILED" /\ rq_result = NoResult /\ rq_err # NoExc

\* a request of the audio service went through every stage and was answered
C2_AllStagesReached ==
    /\ ReqAnswered
    /\ rq_svc = "audio"
    /\ rq_stages = Stages
    /\ Len(rq_ops) = Len(DetectFlow("audio"))

\* C3: the caller receives either a complete result (the requested method,
\* an overlay and the prediction, all populated) or an explicit error; no
\* DetectorResult and no response holds a prediction without an overlay or an
\* overlay without a prediction.
C3_CompleteOrError ==
    /\ rq_result # NoResult =>
          /\ rq_result.xai_method = rq_sel
          /\ Populated(rq_result.xai_explain)
          /\ Populated(rq_result.prediction)
    /\ ReqAnswered =>
          \/ /\ rq_resp.status = 200
             /\ rq_resp.body.xai_method = rq_sel
             /\ Populated(rq_resp.body.xai_explain)
             /\ Populated(rq_resp.body.xai_image_base64)
             /\ Populated(rq_resp.body.prediction)
          \/ /\ rq_resp.status >= 400
             /\ rq_resp.kind \in {"validation_error", "http_exception", "server_error_page"}
             /\ rq_resp.body = NoBody

\* a request of the lung service was answered with a complete result
C3_CompleteResultReturned ==
    /\ ReqAnswered
    /\ rq_svc = "lung"
    /\ rq_resp.status = 200
    /\ rq_resp.body = Body(rq_result, "png")
    /\ rq_result.xai_explain = "image"

\* C4: a request whose selector is no member of the service's method enum is
\* answered with a 4xx that names the field, never with a 5xx, and no
\* explainer is built or run for it.
C4_UnknownMethodRejected ==
    (rq_count > 0 /\ rq_sel \notin XaiMethod(rq_svc)) =>
        /\ rq_locals.explainer = "unset"
        /\ \A i \in 1..Len(rq_ops) : rq_ops[i].op # "explain"
        /\ ReqAnswered =>
              /\ rq_resp.status \in 400..499
              /\ rq_resp.detail.error # ""

\* the lung service was asked for "shap", which its enum does not hold, and
\* answered 422
C4_UnknownMethodAnswered ==
    /\ ReqAnswered
    /\ rq_svc = "lung"
    /\ rq_sel = "shap"
    /\ rq_resp.status = 422
    /\ rq_ops = <<>>

\* C5: an exception other than an HTTPException that leaves the handler body
\* is answered with a 5xx whose detail carries the error message, the stack
\* trace and the handler's name.
C5_ErrorEnvelope ==
    (ReqAnswered /\ rq_err # NoExc /\ rq_err.type # "HTTPException") =>
        /\ rq_resp.status \in 500..599
        /\ rq_resp.detail.error = rq_err.msg
        /\ rq_resp.detail.traceback # ""
        /\ rq_resp.detail.function = HandlerName(rq_svc)

\* C6: when predict, the construction of the explainer or explain raises in
\* the audio service, the deletion of the spectrogram file has been attempted
\* by the time detect() has ended in FAILED.
C6_CleanupOnFailure ==
    (/\ rq_svc = "audio"
     /\ DetectEnded
     /\ rq_stages[Len(rq_stages)] = "FAILED"
     /\ \E i \in 1..Len(rq_stages) : rq_stages[i] = "PREPROCESSED")
        => rq_del.spectrogram # "not_attempted"

\* a step of one of the two cleanups leaves the pending exception, the result
\* and the locals as they are, hands control on as a successful deletion
\* does, and logs a warning when the deletion failed
DeletionStepKeepsOutcome ==
    rq_pc \in {"cleanup", "finally"} =>
        /\ rq_err' = rq_err
        /\ rq_result' = rq_result
        /\ rq_locals' = rq_locals
        /\ rq_pc' = (IF rq_pc = "cleanup" THEN "assemble" ELSE "respond")
        /\ \A a \in {"upload", "spectrogram"} :
              (rq_del'[a] # rq_del[a] /\ rq_del'[a] # "removed")
                  => Len(rq_log') = Len(rq_log) + 1

\* C7: a failure to delete the spectrogram file (detect) or the upload's
\* temporary file (handler) is logged and not raised: whatever the deletion
\* does, the request's outcome is the one it has after a successful deletion.
C7_DeletionNeverRaises == [][DeletionStepKeepsOutcome]_vars

\* both deletions of a request failed and the request was answered with its
\* result
C7_BothDeletionsFailed ==
    /\ ReqAnswered
    /\ rq_del.spectrogram = "PermissionError"
    /\ rq_del.upload = "PermissionError"
    /\ Len(rq_log) = 2
    /\ rq_files = [upload |-> "exists", spectrogram |-> "exists"]
    /\ rq_resp.status = 200

-----------------------------------------------------------------------------
(* Properties of the explainers' explain() *)

AudioKinds == {"audio_gradcam", "audio_lime"}

LungKinds == {"lung_gradcam", "lung_lime"}

\* an explain() call on an audio Grad-CAM or LIME explainer, or on a lung
\* explainer, has run to its end
ExplainEnded == ex_pc = "idle" /\ ex_calls > 0

\* the class index of the last call lies outside the audio model's classes
IndexOutOfRange == ex_in.class_index < 0 \/ ex_in.class_index >= NumClasses

\* C8 as stated: when audio Grad-CAM or LIME explain() is given a
\* class_index outside [0, num_classes) and returns, the class it explained
\* is the argmax of the predictions it obtained.
C8_OutOfRangeExplainsTop ==
    (ex_kind \in AudioKinds /\ ExplainEnded /\ IndexOutOfRange /\ ex_out.tag = "return")
        => ex_class = ArgMax(ex_preds)

\* the target label of the last call is not one of the model's pathologies
UnknownLabel == ex_in.target_label \notin Pathologies

\* C9: a lung Grad-CAM or LIME explain() call with a target label that is
\* not in the pathology list registers no hook, runs no model pass, never
\* gets past the label check, and ends raising ValueError.
C9_UnknownLabelRejectedFirst ==
    (ex_kind \in LungKinds /\ ex_calls > 0 /\ UnknownLabel) =>
        /\ ex_hooked = 0
        /\ ex_hooks = 0
        /\ ex_passes = 0
        /\ ex_pc \in {"validate", "idle"}
        /\ ex_pc = "idle" => (Raised(ex_out) /\ ex_out.exc.type = "ValueError")

\* a lung Grad-CAM call on a model that has pathologies was given an unknown
\* label and has ended with the ValueError
C9_UnknownLabelRaised ==
    /\ ex_kind = "lung_gradcam"
    /\ ExplainEnded
    /\ UnknownLabel
    /\ ex_in.has_pathologies
    /\ Raised(ex_out)
    /\ ex_out.exc.type = "ValueError"

\* an H x W x 3 array of 8-bit integers
IsRgbUint8(a) ==
    /\ a.dtype = "uint8"
    /\ Len(a.shape) = 3
    /\ a.shape[3] = 3
    /\ \A i \in 1..Len(a.data) : a.data[i] \in 0..255

\* an H x W x 3 array of floats in [0, 1]
IsRgbFloat01(a) ==
    /\ a.dtype = "float"
    /\ Len(a.shape) = 3
    /\ a.shape[3] = 3
    /\ \A i \in 1..Len(a.data) : a.data[i] \in 0..FDen

\* XaiShap.explain has returned an overlay
ShapReturned == ShapCallEnded /\ xs_out.tag = "return"

\* explain() of the given explainer classes has returned an overlay (not the
\* bare heat map that lung Grad-CAM hands back on request)
OverlayReturned(kinds) ==
    /\ ex_kind \in kinds
    /\ ExplainEnded
    /\ ex_out.tag = "return"
    /\ ~ex_in.return_heatmap

-----------------------------------------------------------------------------
(* Properties of the helper functions *)

\* the two render helpers of the audio service
RenderFns == {"render_signed_overlay", "render_unsigned_overlay"}

\* the base image of the last helper call as ensure_rgb sees it
BaseRgb == ensure_rgb(hp_args.image)

\* the last call returned an array with the height and width of base
SameSizeAs(base) ==
    /\ hp_out.tag = "return"
    /\ Len(hp_out.val.shape) = 3
    /\ hp_out.val.shape[1] = base.shape[1]
    /\ hp_out.val.shape[2] = base.shape[2]

\* the heat map of the last call has two axes and at least one element
HeatIs2D == Len(hp_args.heat.shape) = 2 /\ Len(hp_args.heat.data) > 0

C12_EnsureRgbByShape ==
    hp_fn = "ensure_rgb" =>
        LET img == hp_args.image
            s == hp_args.image.shape
            out == hp_out.val.data
        IN  IF Len(s) = 2 \/ (Len(s) = 3 /\ s[3] \in {1, 3, 4})
            THEN /\ hp_out.tag = "return"
                 /\ hp_out.val.shape = <<s[1], s[2], 3>>
                 /\ Len(out) = s[1] * s[2] * 3
                 /\ Len(s) = 2 =>
                       \A q \in 1..(s[1] * s[2]), k \in 1..3 :
                           out[3 * (q - 1) + k] = img.data[q]
                 /\ (Len(s) = 3 /\ s[3] = 4) =>
                       \A q \in 1..(s[1] * s[2]), k \in 1..3 :
                           out[3 * (q - 1) + k] = img.data[4 * (q - 1) + k]
                 /\ (Len(s) = 3 /\ s[3] = 3) => hp_out.val = img
            ELSE Raised(hp_out) /\ hp_out.exc.type = "ValueError"

\* ensure_rgb was given a two-pixel RGBA image and returned its RGB part
C12_AlphaDropped ==
    /\ hp_fn = "ensure_rgb"
    /\ hp_args.image.shape = <<1, 2, 4>>
    /\ hp_out.tag = "return"
    /\ hp_out.val.data = <<100, 200, 300, 500, 600, 700>>

\* every element of the last call's result lies between lo and hi
ResultWithin(lo, hi) ==
    \A i \in 1..Len(hp_out.val.data) : hp_out.val.data[i] \in lo..hi

\* C13: for every array of finite values, normalize_01 yields only values
\* in [0, 1] and clip_and_normalize_signed (audio and lung) only values in
\* [-1, 1], for every clip percentile in 0..100, constant, all-negative and
\* single-element arrays included.
C13_NormalizedInRange ==
    /\ hp_fn = "normalize_01" => ResultWithin(0, FDen)
    /\ hp_fn \in {"clip_and_normalize_signed", "lung_clip_and_normalize_signed"}
          => ResultWithin(0 - FDen, FDen)

\* clip_and_normalize_signed was given values beyond the median of their
\* magnitudes and brought them onto the ends of the range
C13_ClippedToEnds ==
    /\ hp_fn = "clip_and_normalize_signed"
    /\ hp_args.cfg.clip_percentile = 50
    /\ hp_args.heat.shape = <<2, 2>>
    /\ \E i \in 1..4 : hp_out.val.data[i] = FDen
    /\ \E i \in 1..4 : hp_out.val.data[i] = 0 - FDen

-----------------------------------------------------------------------------
(* Properties of the arrays handed to explain() *)

\* C14: after every explain() call of every explainer, whether it returned
\* or raised, base_image and x hold what they held before the call.
C14_InputsUnchanged == mm_fn # "none" => mm_after = mm_before

\* audio Grad-CAM returned an overlay for a float base image in [0, 1], the
\* case in which ensure_rgb_uint8 scales an array in place
C14_ScaledInPlaceOnCopy ==
    /\ mm_fn = "audio_gradcam"
    /\ mm_tag = "return"
    /\ mm_before[1].dtype = "float"
    /\ SeqMax(mm_before[1].data) <= FDen
    /\ SeqMax(mm_before[1].data) > 0

-----------------------------------------------------------------------------
(* Properties of OverlayConfig *)

\* C15 as stated: every OverlayConfig object satisfies
\* 0 <= alpha_min <= alpha_max <= 1 and 0 <= clip_percentile <= 100.
C15_ConfigWithinRanges ==
    oc_pc = "made" =>
        /\ 0 <= oc_cfg.alpha_min
        /\ oc_cfg.alpha_min <= oc_cfg.alpha_max
        /\ oc_cfg.alpha_max <= FDen
        /\ 0 <= oc_cfg.clip_percentile
        /\ oc_cfg.clip_percentile <= 100

-----------------------------------------------------------------------------
(* Properties of the layers of XaiShap.explain *)

\* the layers of explain() in the order of the source
LayerOrder == <<"shap", "gradient", "base_image">>

\* the layers the running / last call has entered, in the order it entered them
LayersTried == SelectSeq(xs_log, LAMBDA e : e.event = "try")

\* C16: XaiShap.explain enters its layers in the order SHAP overlay,
\* gradient overlay, base image; a layer after the first is entered only
\* right after the ERROR line of the layer before it; and once a layer has
\* succeeded the call has ended with that layer's result, no further layer
\* being entered.
C16_LayersInOrder ==
    /\ \A i \in 1..Len(LayersTried) :
          i <= Len(LayerOrder) /\ LayersTried[i].layer = LayerOrder[i]
    /\ \A i \in 1..Len(xs_log) :
          /\ (xs_log[i].event = "try" /\ xs_log[i].layer = "gradient")
                => (i > 1 /\ xs_log[i - 1] = [layer |-> "shap", event |-> "ERROR"])
          /\ (xs_log[i].event = "try" /\ xs_log[i].layer = "base_image")
                => (i > 1 /\ xs_log[i - 1] = [layer |-> "gradient", event |-> "ERROR"])
          /\ xs_log[i].event = "END"
                => (i = Len(xs_log) /\ xs_pc = "idle" /\ xs_out.tag = "return")
    /\ xs_pc = "gradient" => ShapLayerFailed("shap")
    /\ xs_pc = "base_image" => ShapLayerFailed("gradient")

\* the SHAP layer raised, the gradient layer succeeded and ended the call
C16_GradientLayerReturned ==
    /\ ShapCallEnded
    /\ xs_log = << [layer |-> "explain", event |-> "START"],
                   [layer |-> "shap", event |-> "try"],
                   [layer |-> "shap", event |-> "ERROR"],
                   [layer |-> "gradient", event |-> "try"],
                   [layer |-> "gradient", event |-> "END"] >>
    /\ xs_out.tag = "return"

-----------------------------------------------------------------------------
(* Properties of the exceptions that leave detect() *)

\* detect() has just been left by an exception of its operation op
DetectLeftBy(op) ==
    /\ rq_pc = "finally"
    /\ rq_ops # <<>>
    /\ rq_ops[Len(rq_ops)] = [op |-> op, ok |-> FALSE]

\* C17: when predict() of the model wrapper, or explain() of a Grad-CAM or
\* LIME explainer, raises, the exception that leaves detect() is the one that
\* was raised, with its type and its message; the explainer's handler has
\* logged the failure.
C17_SameExceptionLeavesDetect ==
    /\ DetectLeftBy("predict") =>
          (rq_raised # NoExc /\ rq_err = rq_raised)
    /\ (DetectLeftBy("explain") /\ rq_locals.explainer \in {"gradcam", "lime"}) =>
          /\ rq_raised # NoExc
          /\ rq_err.type = rq_raised.type
          /\ rq_err.msg = rq_raised.msg
          /\ rq_log # <<>> /\ rq_log[Len(rq_log)] = ExplainFailureLine

\* the lung Grad-CAM explainer raised ValueError for an unknown label and the
\* exception left detect()
C17_ExplainerErrorLeftDetect ==
    /\ rq_svc = "lung"
    /\ DetectLeftBy("explain")
    /\ rq_locals.explainer = "gradcam"
    /\ rq_raised = Exc("ValueError", "Unknown label")
    /\ rq_err = Exc("ValueError", "Unknown label")

-----------------------------------------------------------------------------
(* Properties of the hooks on the lung classifier *)

\* C18: after every Grad-CAM computation on the lung classifier, returned or
\* raised, the hooks it registered on the target layer have been removed: no
\* hook is registered on the shared model between two computations.
C18_HooksRemovedAfterEveryComputation == ex_pc = "idle" => ex_hooks = 0

-----------------------------------------------------------------------------
(* Properties of the explainer cache of XaiShap *)

\* the call of thread t ends in this step
CallEnds(t) == th[t].pc # "idle" /\ th'[t].pc = "idle"

\* when the call of t started, an explainer was cached and its recorded
\* shape was the requested one
HitAtCall(t) ==
    th[t].before.explainer # NoExplainer /\ th[t].before.shape = th[t].req

\* a call that ends returns the cached explainer and builds nothing exactly
\* when it started with a cached explainer recorded for the requested shape;
\* otherwise it builds one explainer for the requested shape, caches and
\* returns it (or the shap library raised and the cache is as it was)
SequentialCallStep ==
    \A t \in Threads :
        CallEnds(t) =>
            IF HitAtCall(t)
            THEN /\ th'[t].out = "return"
                 /\ th'[t].ret = th[t].before.explainer
                 /\ xs_builds' = th[t].before.builds
                 /\ xs_explainer' = th[t].before.explainer
                 /\ xs_shape' = th[t].before.shape
            ELSE \/ /\ th'[t].out = "return"
                    /\ xs_builds' = th[t].before.builds + 1
                    /\ th'[t].ret = [builtFor |-> th[t].req, id |-> xs_builds']
                    /\ xs_explainer' = th'[t].ret
                    /\ xs_shape' = th[t].req
                 \/ /\ th'[t].out = "raise"
                    /\ xs_builds' = th[t].before.builds
                    /\ xs_explainer' = th[t].before.explainer
                    /\ xs_shape' = th[t].before.shape

\* between two calls the recorded shape is the one the cached explainer was
\* built for, and the explainer a call returned was built for the shape the
\* call requested
CacheConsistent ==
    /\ (\A t \in Threads : th[t].pc = "idle") =>
          \/ xs_explainer = NoExplainer /\ xs_shape = NoShape
          \/ xs_explainer # NoExplainer /\ xs_explainer.builtFor = xs_shape
    /\ \A t \in Threads :
          th[t].out = "return" => th[t].ret.builtFor = th[t].req

\* C19: over a sequential series of calls of _get_or_create_explainer, a call
\* returns the cached explainer without building exactly when an explainer is
\* cached for the requested shape, and otherwise builds one for the requested
\* shape and replaces the cache entry; after every call the recorded shape is
\* the one the cached explainer was built for, and the explainer returned was
\* built for the requested shape.
C19_SequentialCache == [][SequentialCallStep]_vars /\ []CacheConsistent

\* a first call built an explainer for one shape, a second call for another
\* shape replaced it, and a third call for the second shape was served from
\* the cache
C19_ReplacedThenHit ==
    /\ \A t \in Threads : th[t].pc = "idle"
    /\ xs_builds = 2
    /\ xs_explainer = [builtFor |-> <<2, 1, 3>>, id |-> 2]
    /\ xs_shape = <<2, 1, 3>>
    /\ \E t \in Threads :
          /\ th[t].out = "return"
          /\ th[t].before.explainer = xs_explainer
          /\ th[t].ret = xs_explainer
          /\ th[t].before.builds = 2

\* C20: whatever the interleaving of the calls of several threads, every call
\* that returns hands back an explainer built for the shape it requested.
C20_ReturnedForRequestedShape ==
    \A t \in Threads :
        th[t].out = "return" => th[t].ret.builtFor = th[t].req

-----------------------------------------------------------------------------
(* Properties of concurrent Grad-CAM computations on the lung classifier *)

\* C21: under every interleaving of Grad-CAM computations on the shared lung
\* classifier, the activations and the gradients a call holds, and those it
\* computes its map from, come from that call's own forward and backward pass.
C21_CapturesFromOwnPass ==
    \A t \in Threads :
        /\ hk[t].activations \in {NoPass, CallOf(t)}
        /\ hk[t].gradients \in {NoPass, CallOf(t)}
        /\ hk[t].out = "return" =>
              (hk[t].used.activations = CallOf(t) /\ hk[t].used.gradients = CallOf(t))

-----------------------------------------------------------------------------
(* Properties of the Grad-CAM explainers' failures *)

-----------------------------------------------------------------------------
(* Properties of clip_and_normalize_signed on particular heat maps *)

ClipFns == {"clip_and_normalize_signed", "lung_clip_and_normalize_signed"}

\* every element of the array is zero
AllZero(a) == \A i \in 1..Len(a.data) : a.data[i] = 0

\* C23: for an all-zero heat map of any shape and every percentile,
\* clip_and_normalize_signed of either service returns the all-zero float
\* array of the same shape.
C23_ZeroHeatStaysZero ==
    (hp_fn \in ClipFns /\ AllZero(hp_args.heat)) =>
        /\ hp_out.tag = "return"
        /\ hp_out.val.dtype = "float"
        /\ hp_out.val.shape = hp_args.heat.shape
        /\ Len(hp_out.val.data) = Len(hp_args.heat.data)
        /\ AllZero(hp_out.val)

\* an all-zero 2 x 2 map normalised at the 99th percentile
C23_ZeroMapNormalized ==
    /\ hp_fn = "clip_and_normalize_signed"
    /\ hp_args.heat = Arr("float", <<2, 2>>, <<0, 0, 0, 0>>)
    /\ hp_args.cfg.clip_percentile = 99
    /\ hp_out = Ret(Arr("float", <<2, 2>>, <<0, 0, 0, 0>>))

\* the heat map [[5, -5], [0, 0]]
ExampleHeat == Arr("float", <<2, 2>>, <<5 * FDen, 0 - 5 * FDen, 0, 0>>)

\* clip_and_normalize_signed was called on the example at the 50th percentile
ExampleCall ==
    /\ hp_fn = "clip_and_normalize_signed"
    /\ hp_args.heat = ExampleHeat
    /\ hp_args.cfg.clip_percentile = 50

\* the result is [[1, -1], [0, 0]] up to one step of the fixed-point grid
ExampleResult ==
    /\ hp_out.tag = "return"
    /\ hp_out.val.shape = <<2, 2>>
    /\ \A i \in 1..4 :
          Abs(hp_out.val.data[i] - <<FDen, 0 - FDen, 0, 0>>[i]) <= 1

\* C24 as stated: on [[5, -5], [0, 0]] at the 50th percentile the threshold
\* is 5 and the result is about [[1, -1], [0, 0]].
C24_ThresholdFive ==
    ExampleCall =>
        (ClipThreshold(AsFix(hp_args.heat), 50) = 5 * FDen /\ ExampleResult)

\* C24, amended: on [[5, -5], [0, 0]] at the 50th percentile the threshold is
\* 2.5, the value linear interpolation gives between the two middle elements
\* 0 and 5 of |heat| (up to one step of the fixed-point grid), and the result
\* is about [[1, -1], [0, 0]].
C24_ThresholdTwoAndAHalf ==
    ExampleCall =>
        /\ Abs(2 * ClipThreshold(AsFix(hp_args.heat), 50) - 5 * FDen) <= 1
        /\ ExampleResult

\* the example call was made and returned [[1, -1], [0, 0]]
C24_ExampleNormalized ==
    /\ ExampleCall
    /\ hp_out = Ret(Arr("float", <<2, 2>>, <<FDen, 0 - FDen, 0, 0>>))

-----------------------------------------------------------------------------
(* Properties of the blend helpers *)

BlendFns == {"alpha_blend", "alpha_blend_rgb01_rgba01"}

\* base is H x W x 3 and overlay is H x W x 4 with the same H and W
BlendShapesMatch(base, overlay) ==
    /\ Len(base.shape) = 3 /\ base.shape[3] = 3
    /\ Len(overlay.shape) = 3 /\ overlay.shape[3] = 4
    /\ base.shape[1] = overlay.shape[1]
    /\ base.shape[2] = overlay.shape[2]

\* C25: a blend helper returns an image exactly when base is H x W x 3 and
\* overlay is H x W x 4 of the same height and width; for every other pair of
\* shapes it raises a shape error.
C25_BlendOnlyMatchingShapes ==
    hp_fn \in BlendFns =>
        IF BlendShapesMatch(hp_args.image, hp_args.heat)
        THEN hp_out.tag = "return"
        ELSE Raised(hp_out) /\ hp_out.exc.type = "ValueError"

-----------------------------------------------------------------------------
(* Properties of the conversions to 8-bit *)

Uint8Fns == {"ensure_rgb_uint8", "_to_uint8", "to_uint8_rgb"}

\* round(255 * v), to the nearest integer, of the fixed-point value q
RoundTo255(q) == (q * 255 + FDen \div 2) \div FDen

\* every value of the array lies in [0, 1]
AllIn01(a) == \A i \in 1..Len(a.data) : a.data[i] >= 0 /\ a.data[i] <= FDen

\* C26: a conversion to 8-bit returns an H x W x 3 image that is already 8-bit
\* unchanged, and maps each value v of a float image with values in [0, 1] to
\* round(255 * v), so that a value whose scaled value is at least 254.5 maps
\* to 255.
C26_RoundsToNearest ==
    (/\ hp_fn \in Uint8Fns
     /\ Len(hp_args.image.shape) = 3
     /\ hp_out.tag = "return")
        => IF hp_args.image.dtype = "uint8"
           THEN hp_out.val = hp_args.image
           ELSE AllIn01(hp_args.image)
                    => \A i \in 1..Len(hp_out.val.data) :
                          hp_out.val.data[i] = RoundTo255(hp_args.image.data[i])

-----------------------------------------------------------------------------
(* Properties of the explainer detect() constructs *)

\* C27: detect() hands explain() an XaiShap instance of its own: when a
\* request enters the SHAP layer the cache is empty, so no input shape hits an
\* explainer of an earlier request, and an instance builds at most one
\* explainer.
C27_FreshExplainerPerRequest ==
    /\ xs_pc \in {"constructed", "shap"} =>
          /\ xs_explainer = NoExplainer
          /\ xs_shape = NoShape
          /\ xs_builds = 0
          /\ \A image \in BaseImages :
                ~Raised(ensure_rgb(image)) =>
                    ~CacheHit(xs_explainer, xs_shape, ensure_rgb(image).val.shape)
    /\ xs_builds <= 1

\* the second request has built an explainer of its own
C27_SecondRequestBuiltAgain ==
    /\ xs_calls = 2
    /\ xs_pc = "idle"
    /\ xs_out.tag = "return"
    /\ xs_builds = 1
    /\ xs_explainer.builtFor = xs_shape
    /\ xs_explainer # NoExplainer

-----------------------------------------------------------------------------
(* Properties of an out-of-range class_index in XaiShap.explain *)

\* the class_index of the running / last call is no index of the predictions
ClassIndexOutOfRange == xs_in.class_index < 0 \/ xs_in.class_index >= NumClasses

-----------------------------------------------------------------------------
(* Properties of the handler's cleanup *)

\* the handler has been left, by its return or by an exception
HandlerLeft == rq_pc \in {"respond", "done"}

\* C29: once the handler has created the temporary upload file, os.remove is
\* called on it exactly once on every way out of the handler - the response,
\* an exception while the upload is written, in detect() or in the PNG
\* encoding - and never before; the uploaded file object has been closed
\* whenever the handler has been left through its finally block.
C29_UploadRemovedOnceAndClosed ==
    /\ rq_del.upload_tries <= 1
    /\ (rq_del.upload_tries = 1) = (rq_del.upload # "not_attempted")
    /\ ~HandlerLeft => rq_del.upload_tries = 0
    /\ (HandlerLeft /\ rq_del.file_closed /\ rq_files.upload # "none")
          => rq_del.upload_tries = 1
    /\ (HandlerLeft /\ rq_locals.tmp_path = "set")
          => rq_del.file_closed /\ rq_files.upload # "none"

\* the upload could not be written: detect() was never entered, the handler
\* was left by the exception, and the removal of the file was attempted
C29_RemovedAfterFailedWrite ==
    /\ HandlerLeft
    /\ rq_stages = <<>>
    /\ rq_err.type = "OSError"
    /\ rq_files.upload = "removed"
    /\ rq_del.upload_tries = 1
    /\ rq_del.file_closed

-----------------------------------------------------------------------------
(* Properties of the lung prediction *)

\* C30: the decision of a lung prediction is "Cancer suspected" exactly when
\* the score of "Lung Lesion" is greater than or equal to the threshold the
\* model was constructed with, and "No cancer detected" otherwise; the
\* prediction carries that score and that threshold; and the label detect()
\* hands to explain() is "Lung Lesion" whatever the decision.
C30_DecisionByThreshold ==
    /\ lp_prediction # NoPrediction =>
          /\ lp_prediction.decision =
                (IF lp_scores["Lung Lesion"] >= lp_threshold
                 THEN "Cancer suspected" ELSE "No cancer detected")
          /\ lp_prediction.score = lp_scores["Lung Lesion"]
          /\ lp_prediction.threshold = lp_threshold
    /\ lp_label \in {"none", "Lung Lesion"}
    /\ lp_label # "none" => lp_prediction # NoPrediction

\* a score equal to the threshold was decided as suspected and explained
C30_EqualScoreSuspected ==
    /\ lp_pc = "idle"
    /\ lp_prediction.score = lp_prediction.threshold
    /\ lp_prediction.decision = "Cancer suspected"
    /\ lp_label = "Lung Lesion"

=============================================================================
